---- MODULE Spec2Model ----
(***************************************************************************)
(* Loadbalancer.org Feedback Agent: the responder state machine, the       *)
(* weighted feedback sources and the JSON control API of the agent.        *)
(*                                                                         *)
(* Conventions of the model                                                *)
(*  - Go maps are functions over a fixed name set; an absent key is Nil.   *)
(*  - A float64 significance is kept in tenths (10 is 1.0); a relative     *)
(*    significance is the exact quotient [num, den]; den = 0 is the NaN    *)
(*    that 0.0/0.0 yields.                                                 *)
(*  - Go's int is 64 bits wide; the model keeps two's-complement wrap at   *)
(*    the reduced width IntBits.  The conversion int(NaN) is not defined   *)
(*    by the language: NaNToInt lists what builds produce.                 *)
(*  - time.Time is a count of seconds in 0..MaxTime.                       *)
(***************************************************************************)
EXTENDS Integers, Sequences, FiniteSets, TLC

VARIABLES
    now,             \* wall clock, seconds
    Monitors,        \* FeedbackAgent.Monitors: name -> SystemMonitor or Nil
    paramHeap,       \* MetricParams map objects, shared by reference
    result,          \* StatsModel.GetResult() of the model of each monitor name
    Responders,      \* FeedbackAgent.Responders: name -> FeedbackResponder or Nil
    unsavedChanges,  \* FeedbackAgent.unsavedChanges
    saved,           \* contents of the config file
    crashed,         \* the process died on a Go runtime fatal error
    req,             \* feedback requests in flight, per client
    reply,           \* history: the feedback reply the last step built, if any
    lastAPI,         \* history: the API request the last step completed, if any
    haltAt,          \* history: when an undisturbed `force halt` returned
    introduced,      \* history: values left in memory by failed requests
    mainLoop,        \* agentMain: "waiting" in EventHandleLoop, or "exited"
    wire,            \* a command mask and polarity, and their serialisation
    sysmon,          \* one monitor's worker task, its callers and what it logged
    stats,           \* one StatisticsModel and the observation it was last given
    svc,             \* one FeedbackResponder's worker, listener and callers
    edit,            \* the source operation on the polled responder in progress
    apiServer        \* the HTTP server of the responder `api` and its requests

vars == <<now, Monitors, paramHeap, result, Responders, unsavedChanges, saved,
          crashed, req, reply, lastAPI, haltAt, introduced, mainLoop, wire,
          sysmon, stats, svc, edit, apiServer>>

\* An absent map entry or a nil pointer (a record, so that it compares with records).
Nil == [nil |-> TRUE]

\* ---------------------------------------------------------------- bounds
MaxTime == 3
NumClients == 1
IntBits == 16
MaxParamMaps == 3
MaxMask == 127
NumCallers == 2

Clients == 1..NumClients
Callers == 1..NumCallers

\* ------------------------------------------------------ program constants
HAPEnumNone == 0
HAPMaskCommand == 255
HAPMaskAll == 4095
HAPOnlineFlag == 256
HAPOfflineFlag == 512
HAPEnumUp == 257
HAPEnumReady == 258
HAPEnumDown == 516
HAPEnumDrain == 520
HAPEnumFail == 528
HAPEnumMaintenance == 544
HAPEnumStopped == 576
DefaultCommandInterval == 10

RECURSIVE BitAnd(_, _)
BitAnd(a, b) ==
    IF a = 0 \/ b = 0 THEN 0
    ELSE ((a % 2) * (b % 2)) + 2 * BitAnd(a \div 2, b \div 2)

RECURSIVE BitOr(_, _)
BitOr(a, b) ==
    IF a = 0 THEN b
    ELSE IF b = 0 THEN a
    ELSE (IF (a % 2) + (b % 2) > 0 THEN 1 ELSE 0) + 2 * BitOr(a \div 2, b \div 2)

\* a &^ b
BitAndNot(a, b) == a - BitAnd(a, b)

HAPDefaultOnline == BitOr(HAPEnumUp, HAPEnumReady)
HAPDefaultOffline == HAPEnumDrain

commandToEnum ==
    [c \in {"", "up", "ready", "down", "drain", "fail", "maint", "stopped"} |->
        CASE c = "" -> HAPEnumNone
          [] c = "up" -> HAPEnumUp
          [] c = "ready" -> HAPEnumReady
          [] c = "down" -> HAPEnumDown
          [] c = "drain" -> HAPEnumDrain
          [] c = "fail" -> HAPEnumFail
          [] c = "maint" -> HAPEnumMaintenance
          [] c = "stopped" -> HAPEnumStopped]

enumToCommand(e) ==
    CASE e = HAPEnumNone -> ""
      [] e = HAPEnumUp -> "up"
      [] e = HAPEnumReady -> "ready"
      [] e = HAPEnumDown -> "down"
      [] e = HAPEnumDrain -> "drain"
      [] e = HAPEnumFail -> "fail"
      [] e = HAPEnumMaintenance -> "maint"
      [] e = HAPEnumStopped -> "stopped"

commandEnumOrder ==
    <<HAPEnumNone, HAPEnumUp, HAPEnumReady, HAPEnumDown, HAPEnumDrain,
      HAPEnumFail, HAPEnumMaintenance, HAPEnumStopped>>

\* The command string as the sequence of its space-separated tokens.
RECURSIVE CommandMaskFrom(_, _, _, _)
CommandMaskFrom(i, commandMask, enumMask, filter) ==
    IF i > Len(commandEnumOrder) THEN <<>>
    ELSE LET enum == commandEnumOrder[i]
             rest == CommandMaskFrom(i + 1, commandMask, enumMask, filter)
         IN IF BitAnd(enum, filter) > 0
               /\ BitAnd(enum, commandMask) = BitAnd(enum, enumMask)
            THEN <<enumToCommand(enum)>> \o rest
            ELSE rest

\* The serialisation that takes the tokens of both polarities.
CommandMaskToStringAnyState(commandMask, enumMask, filter) ==
    CommandMaskFrom(1, commandMask, enumMask, HAPMaskAll)

CommandMaskToString(commandMask, enumMask, filter) ==
    CommandMaskFrom(1, commandMask, enumMask, filter)

GenerateCommandString(online, currentMask) ==
    CommandMaskToString(currentMask, HAPMaskCommand,
                        IF online THEN HAPOnlineFlag ELSE HAPOfflineFlag)

\* ------------------------------------------------------- integer helpers
IntMin == - (2 ^ (IntBits - 1))
Wrap(x) == ((x + 2 ^ (IntBits - 1)) % (2 ^ IntBits)) - 2 ^ (IntBits - 1)
NaNToInt == {IntMin, 0}

\* ----------------------------------------------------------- name spaces
MonNames == {"cpu", "ram"}
RespNames == {"default", "api"}
ResponderNameAPI == "api"
ProtocolSecureAPI == "https-api"
ProtocolLegacyAPI == "http-api"
ValidProtocols == {"tcp", "http", "https", ProtocolSecureAPI}
TimeZero == 0

\* Iteration orders of a Go map over the monitor names.
MapOrders == {<<"cpu", "ram">>, <<"ram", "cpu">>}

HasSource(fbr, k) == fbr.FeedbackSources[k] # Nil
SourceNames(fbr) == {k \in MonNames : HasSource(fbr, k)}

\* ------------------------------------------------ FeedbackSource, weights
NewSource(mon, sig, max, thr) ==
    [Significance |-> sig, MaxValue |-> max, Threshold |-> thr,
     Monitor |-> mon, RelNum |-> 0, RelDen |-> 1]

NoSources == [k \in MonNames |-> Nil]

RECURSIVE SumOver(_, _)
SumOver(S, f) ==
    IF S = {} THEN 0
    ELSE LET k == CHOOSE x \in S : TRUE IN f[k] + SumOver(S \ {k}, f)

\* The first loop of initialiseSources over the keys in iteration order:
\* validates each source and resolves its monitor; stops at the first error.
RECURSIVE ValidateSources(_, _, _, _)
ValidateSources(srcs, mons, order, i) ==
    IF i > Len(order) THEN [err |-> FALSE, srcs |-> srcs]
    ELSE LET k == order[i] IN
         IF srcs[k] = Nil THEN ValidateSources(srcs, mons, order, i + 1)
         ELSE IF mons[k] = Nil THEN [err |-> TRUE, srcs |-> srcs]
         ELSE IF srcs[k].Significance < 0 \/ srcs[k].Significance > 10
              THEN [err |-> TRUE, srcs |-> srcs]
         ELSE IF srcs[k].MaxValue < 0 THEN [err |-> TRUE, srcs |-> srcs]
         ELSE IF srcs[k].Threshold < 0 \/ srcs[k].Threshold > 100
              THEN [err |-> TRUE, srcs |-> srcs]
         ELSE ValidateSources(
                 [srcs EXCEPT ![k].Monitor = mons[k].obj], mons, order, i + 1)

\* The second loop: RelativeSignificance = Significance / totalSignificance.
RelativeSignificances(srcs) ==
    LET present == {k \in MonNames : srcs[k] # Nil}
        total == SumOver(present, [k \in present |-> srcs[k].Significance])
    IN [k \in MonNames |->
          IF srcs[k] = Nil THEN Nil
          ELSE [srcs[k] EXCEPT !.RelNum = srcs[k].Significance, !.RelDen = total]]

initialiseSources(fbr, mons, order) ==
    LET v == ValidateSources(fbr.FeedbackSources, mons, order, 1) IN
    IF v.err THEN [err |-> TRUE, fbr |-> [fbr EXCEPT !.FeedbackSources = v.srcs]]
    ELSE [err |-> FALSE,
          fbr |-> [fbr EXCEPT !.FeedbackSources = RelativeSignificances(v.srcs)]]

\* --------------------------------------------- commands, interval, latch
resetStateExpiry(fbr, t) == [fbr EXCEPT !.stateExpiry = t + fbr.CommandInterval]

SetCommandState(fbr, isOnline, force, overrideMask, t) ==
    resetStateExpiry(
        [fbr EXCEPT !.onlineState = isOnline,
                    !.forceCommandState = force,
                    !.overrideMask = BitAnd(overrideMask, HAPMaskCommand)], t)

CommandTokens == {"up", "ready", "down", "drain", "fail", "maint", "stopped"}

RECURSIVE TokensToMask(_, _)
TokensToMask(toks, i) ==
    IF i > Len(toks) THEN 0
    ELSE BitOr(commandToEnum[toks[i]], TokensToMask(toks, i + 1))

\* The configuration with the stored string always spelled out from the mask.
setHAPCommandMaskSpelled(fbr, commands, replace, unset, t) ==
    IF commands = <<>> THEN [err |-> TRUE, fbr |-> fbr]
    ELSE IF commands \notin {<<"none">>, <<"default">>}
            /\ \E i \in 1..Len(commands) : commands[i] \notin CommandTokens
         THEN [err |-> TRUE, fbr |-> fbr]
    ELSE
      LET isNone == commands = <<"none">>
          raw == IF isNone THEN HAPEnumNone
                 ELSE IF commands = <<"default">>
                      THEN BitOr(HAPDefaultOnline, HAPDefaultOffline)
                      ELSE TokensToMask(commands, 1)
          changeMask == BitAnd(raw, HAPMaskCommand)
          newMask == IF replace \/ isNone THEN changeMask
                     ELSE IF ~unset THEN BitOr(fbr.configCommandMask, changeMask)
                     ELSE BitAndNot(fbr.configCommandMask, changeMask)
      IN [err |-> FALSE,
          fbr |-> resetStateExpiry(
                     [fbr EXCEPT !.configCommandMask = newMask,
                                 !.HAProxyCommands =
                                     CommandMaskToString(newMask, HAPMaskCommand,
                                                         HAPMaskAll)], t)]

\* commands is the configuration string as its sequence of words.
setHAPCommandMask(fbr, commands, replace, unset, t) ==
    IF commands = <<>> THEN [err |-> TRUE, fbr |-> fbr]
    ELSE IF commands \notin {<<"none">>, <<"default">>}
            /\ \E i \in 1..Len(commands) : commands[i] \notin CommandTokens
         THEN [err |-> TRUE, fbr |-> fbr]
    ELSE
      LET isNone == commands = <<"none">>
          raw == IF isNone THEN HAPEnumNone
                 ELSE IF commands = <<"default">>
                      THEN BitOr(HAPDefaultOnline, HAPDefaultOffline)
                      ELSE TokensToMask(commands, 1)
          changeMask == BitAnd(raw, HAPMaskCommand)
          newMask == IF replace \/ isNone THEN changeMask
                     ELSE IF ~unset THEN BitOr(fbr.configCommandMask, changeMask)
                     ELSE BitAndNot(fbr.configCommandMask, changeMask)
          text == IF commands \in {<<"none">>, <<"default">>} THEN commands
                  ELSE CommandMaskToString(newMask, HAPMaskCommand, HAPMaskAll)
      IN [err |-> FALSE,
          fbr |-> resetStateExpiry(
                     [fbr EXCEPT !.configCommandMask = newMask,
                                 !.HAProxyCommands = text], t)]

ConfigureCommands(fbr, commands, replace, unset, t) ==
    IF commands = <<>> THEN [err |-> TRUE, fbr |-> fbr]
    ELSE setHAPCommandMask(fbr, commands, replace, unset, t)

ConfigureInterval(fbr, interval) ==
    [err |-> interval < 1,
     fbr |-> [fbr EXCEPT !.CommandInterval = IF interval < 1 THEN 0 ELSE interval]]

ConfigureThresholdValue(fbr, threshold) ==
    IF threshold < 0 THEN [err |-> TRUE, fbr |-> fbr]
    ELSE [err |-> FALSE, fbr |-> [fbr EXCEPT !.ThresholdScore = threshold]]

ThresholdModes == {"any", "none", "overall", "metric"}

ConfigureThresholdMode(fbr, name0) ==
    LET name == IF name0 = "" THEN "none" ELSE name0 IN
    IF fbr.ProtocolName \in {ProtocolSecureAPI, ProtocolLegacyAPI} /\ name # "none"
    THEN [err |-> TRUE, fbr |-> fbr]
    ELSE IF name \notin ThresholdModes THEN [err |-> TRUE, fbr |-> fbr]
    ELSE [err |-> FALSE,
          fbr |-> [fbr EXCEPT !.thresholdModeEnum = name, !.ThresholdModeName = name]]

\* ------------------------------------------------ availability, thresholds
\* math.Round of the quotient n/d for d > 0: half away from zero.
RoundDiv(n, d) ==
    IF n >= 0 THEN (2 * n + d) \div (2 * d)
    ELSE - ((2 * (-n) + d) \div (2 * d))

\* cv is the build's int() of a NaN or infinite float64.
getSourceLoad(source, rawResult, cv) ==
    LET rawValue == IF rawResult > source.MaxValue THEN source.MaxValue ELSE rawResult
        load == IF source.MaxValue = 0 THEN cv
                ELSE RoundDiv(rawValue * 100, source.MaxValue)
    IN IF load > 100 THEN 100 ELSE IF load < 0 THEN 0 ELSE load

\* The comparison with a threshold that has to be exceeded.
getThresholdStatusStrict(threshold, load) ==
    IF threshold <= 0 THEN FALSE ELSE load > threshold

getThresholdStatus(threshold, load) ==
    IF threshold <= 0 THEN FALSE ELSE ~(load < threshold)

isAnyThresholdEnabled(fbr) == fbr.thresholdModeEnum = "any"
isMetricThresholdEnabled(fbr) == fbr.thresholdModeEnum \in {"any", "metric"}
isOverallThresholdEnabled(fbr) == fbr.thresholdModeEnum \in {"any", "overall"}

\* int(float64(sourceLoad) * source.RelativeSignificance)
ScaledLoad(source, load, cv) ==
    IF source.RelDen = 0 THEN cv ELSE (load * source.RelNum) \div source.RelDen

\* The load of each source, and the overall load the loop accumulates.
Loads(fbr, res, cv) ==
    [k \in SourceNames(fbr) |-> getSourceLoad(fbr.FeedbackSources[k], res[k], cv)]

OverallLoad(fbr, res, cv) ==
    Wrap(SumOver(SourceNames(fbr),
                 [k \in SourceNames(fbr) |->
                     ScaledLoad(fbr.FeedbackSources[k], Loads(fbr, res, cv)[k], cv)]))

GetAvailabilityState(fbr, res, cv) ==
    LET S == SourceNames(fbr)
        load == Loads(fbr, res, cv)
        metricHit == isMetricThresholdEnabled(fbr)
                     /\ \E k \in S :
                          getThresholdStatus(fbr.FeedbackSources[k].Threshold, load[k])
        anyHit == isAnyThresholdEnabled(fbr)
                  /\ \E k \in S : getThresholdStatus(fbr.ThresholdScore, load[k])
        overallHit == isOverallThresholdEnabled(fbr)
                      /\ getThresholdStatus(fbr.ThresholdScore,
                                            OverallLoad(fbr, res, cv))
    IN [availability |-> Wrap(100 - OverallLoad(fbr, res, cv)),
        online |-> ~(metricHit \/ anyHit \/ overallHit)]

\* The test of HandleFeedback that decides whether the latch is rewritten.
ShouldRelatch(fbr, thresholdState, timestamp) ==
    /\ fbr.thresholdModeEnum # "none"
    /\ thresholdState # fbr.onlineState
    /\ \/ ~fbr.forceCommandState
       \/ /\ timestamp > fbr.stateExpiry
          /\ (fbr.onlineState \/ fbr.EnableOfflineInterval)

\* The command string of a token sequence: the tokens, a space between them.
RECURSIVE CommandText(_)
CommandText(tokens) ==
    IF tokens = <<>> THEN ""
    ELSE IF Len(tokens) = 1 THEN tokens[1]
    ELSE tokens[1] \o " " \o CommandText(Tail(tokens))

\* strconv.Itoa(availability) + "%"
Percent(availability) == ToString(availability) \o "%"

\* The text written to the client: the command string and a space when the
\* command string is due, then the availability, `%` and a newline.
ReplyText(r) ==
    IF r.cmd THEN CommandText(r.tokens) \o " " \o Percent(r.avail) \o "\n"
    ELSE Percent(r.avail) \o "\n"

\* The reply with the command string sent only until the expiry.
BuildReplyUntilExpiry(fbr, availability, timestamp) ==
    IF ~(timestamp > fbr.stateExpiry)
    THEN LET mask == IF fbr.overrideMask # HAPEnumNone THEN fbr.overrideMask
                     ELSE fbr.configCommandMask
         IN [cmd |-> TRUE, tokens |-> GenerateCommandString(fbr.onlineState, mask),
             avail |-> availability]
    ELSE [cmd |-> FALSE, tokens |-> <<>>, avail |-> availability]

\* The tail of HandleFeedback: the reply built from the current latch.
BuildReply(fbr, availability, timestamp) ==
    IF ~(timestamp > fbr.stateExpiry)
       \/ (~fbr.EnableOfflineInterval /\ ~fbr.onlineState)
    THEN LET mask == IF fbr.overrideMask # HAPEnumNone THEN fbr.overrideMask
                     ELSE fbr.configCommandMask
         IN [cmd |-> TRUE, tokens |-> GenerateCommandString(fbr.onlineState, mask),
             avail |-> availability]
    ELSE [cmd |-> FALSE, tokens |-> <<>>, avail |-> availability]

\* ----------------------------------------------------------- Initialise
ValidIPs == {"*", "127.0.0.1"}
ParseIPAddress(ip) == [err |-> ip \notin ValidIPs, ip |-> ip]
ParseNetworkPort(port) == [err |-> port < 1 \/ port > 65535, port |-> port]
NewFeedbackConnector(protocol) == [err |-> protocol \notin ValidProtocols]

\* Result: err (an error was returned), fatal (the deferred Unlock ran on the
\* mutex that line 283 had already released: the Go runtime ends the process).
Initialise(fbr0, mons, order, t) ==
    LET bad(f) == [err |-> TRUE, fatal |-> FALSE, fbr |-> f]
        die(f) == [err |-> TRUE, fatal |-> TRUE, fbr |-> f]
        mode(m) == IF m.err THEN die(m.fbr)
                   ELSE [err |-> FALSE, fatal |-> FALSE, fbr |-> m.fbr]
        interval(i) ==
            IF i.err THEN die(i.fbr)
            ELSE mode(ConfigureThresholdMode(i.fbr, i.fbr.ThresholdModeName))
        commands(c) ==
            IF c.err THEN die(c.fbr)
            ELSE interval(ConfigureInterval(c.fbr, c.fbr.CommandInterval))
        sources(s) ==
            IF s.err THEN die(s.fbr)
            ELSE commands(ConfigureCommands(s.fbr, s.fbr.HAProxyCommands, TRUE, FALSE, t))
        checked(fbr1) ==
            IF NewFeedbackConnector(fbr1.ProtocolName).err THEN bad(fbr1)
            ELSE IF ParseIPAddress(fbr1.ListenIPAddress).err THEN bad(fbr1)
            ELSE IF ParseNetworkPort(fbr1.ListenPort).err THEN bad(fbr1)
            ELSE IF fbr1.ProtocolName = ProtocolSecureAPI \/ SourceNames(fbr1) = {}
                 THEN [err |-> FALSE, fatal |-> FALSE, fbr |-> fbr1]
            ELSE sources(initialiseSources(fbr1, mons, order))
    IN checked([fbr0 EXCEPT !.ProtocolName =
                   IF @ = ProtocolLegacyAPI THEN ProtocolSecureAPI ELSE @])

\* A FeedbackResponder value with Go's zero values for the fields not given.
ResponderObject(protocol, ip, port, sources, commands, interval, mode, score, eoi) ==
    [ProtocolName |-> protocol, ListenIPAddress |-> ip, ListenPort |-> port,
     FeedbackSources |-> sources, HAProxyCommands |-> commands,
     CommandInterval |-> interval, ThresholdScore |-> score,
     ThresholdModeName |-> mode, EnableOfflineInterval |-> eoi,
     LogStateChanges |-> FALSE, runState |-> FALSE, listening |-> FALSE,
     onlineState |-> FALSE,
     configCommandMask |-> 0, overrideMask |-> 0, stateExpiry |-> TimeZero,
     forceCommandState |-> FALSE, thresholdModeEnum |-> "any"]

\* FeedbackResponder.Copy
CopyResponder(fbr) == [fbr EXCEPT !.runState = FALSE]

\* -------------------------------------------------------- SystemMonitor
ParamKeys == {"sampling-ms", "disk-path"}
EmptyParams == [k \in ParamKeys |-> ""]
ParamIds == 1..MaxParamMaps
CPUMetricMinSampleTime == 500
MetricDefaultMax == 100

\* strconv.Atoi of the sample time strings the requests use
SampleTimeOf(str) == IF str = "900" THEN 900 ELSE IF str = "500" THEN 500 ELSE 0

\* NewMetric and the Configure method of the metric: err, and the params map
\* as Configure leaves it (CPUMetric.Configure writes the default back).
NewMetric(metric, params) ==
    CASE metric = "cpu" ->
           [err |-> FALSE,
            params |-> IF params["sampling-ms"] = ""
                          \/ SampleTimeOf(params["sampling-ms"]) < CPUMetricMinSampleTime
                       THEN [params EXCEPT !["sampling-ms"] = "500"]
                       ELSE params]
      [] metric = "ram" -> [err |-> FALSE, params |-> params]
      [] metric = "disk-usage" -> [err |-> params["disk-path"] = "", params |-> params]
      [] OTHER -> [err |-> TRUE, params |-> params]

\* SystemMonitor.Copy: a shallow copy; Params still refers to the same map.
CopyMonitor(mon) == [mon EXCEPT !.runState = FALSE]

\* SystemMonitor.Initialise on monitor object mon with the heap of maps H.
InitialiseMonitor(mon, H) ==
    LET m == NewMetric(mon.MetricType, H[mon.Params]) IN
    [err |-> m.err, mon |-> mon, H |-> [H EXCEPT ![mon.Params] = m.params]]

\* Object identities: the smallest identity no live reference holds.
UsedObjs(M, R) ==
    {M[n].obj : n \in {x \in MonNames : M[x] # Nil}} \cup
    UNION {{R[n].FeedbackSources[k].Monitor :
               k \in {x \in MonNames : R[n].FeedbackSources[x] # Nil}} :
           n \in {x \in RespNames : R[x] # Nil}}
FreshObj(M, R) == CHOOSE i \in 1..(Cardinality(UsedObjs(M, R)) + 1) :
                      i \notin UsedObjs(M, R)
UsedParamIds(M) == {M[n].Params : n \in {x \in MonNames : M[x] # Nil}}

\* ------------------------------------------------ responder life cycle
\* A start that leaves the latch as it finds it.
StartResponderKeepLatch(fbr, t) ==
    IF fbr.runState THEN [err |-> TRUE, fbr |-> fbr]
    ELSE [err |-> FALSE, fbr |-> [fbr EXCEPT !.runState = TRUE, !.listening = FALSE]]

\* Start, through run(): refused when already running; the latch is
\* initialised by SetCommandState(true, false, HAPEnumNone).
StartResponder(fbr, t) ==
    IF fbr.runState THEN [err |-> TRUE, fbr |-> fbr]
    ELSE [err |-> FALSE,
          fbr |-> SetCommandState([fbr EXCEPT !.runState = TRUE,
                                               !.listening = FALSE],
                                  TRUE, FALSE, HAPEnumNone, t)]

StopResponder(fbr) ==
    IF fbr.runState
    THEN [err |-> FALSE, fbr |-> [fbr EXCEPT !.runState = FALSE, !.listening = FALSE]]
    ELSE [err |-> TRUE, fbr |-> fbr]

\* ------------------------------------------------- feedback source edits
\* AddFeedbackSource without the removal of a source that failed validation
AddFeedbackSourceKept(fbr, name, significance, maxValue, threshold, mons, order) ==
    IF name = "" THEN [err |-> TRUE, fbr |-> fbr]
    ELSE IF name \notin MonNames \/ mons[name] = Nil THEN [err |-> TRUE, fbr |-> fbr]
    ELSE IF fbr.FeedbackSources[name] # Nil THEN [err |-> TRUE, fbr |-> fbr]
    ELSE
      LET sigValue == IF significance # {} THEN CHOOSE v \in significance : TRUE ELSE 10
          metricMax == IF maxValue # {} THEN CHOOSE v \in maxValue : TRUE
                       ELSE MetricDefaultMax
          thresholdValue == IF threshold # {} THEN CHOOSE v \in threshold : TRUE ELSE 0
          newSource == NewSource(mons[name].obj, sigValue, metricMax, thresholdValue)
      IN initialiseSources(
            [fbr EXCEPT !.FeedbackSources[name] = newSource], mons, order)

AddFeedbackSource(fbr, name, significance, maxValue, threshold, mons, order) ==
    IF name = "" THEN [err |-> TRUE, fbr |-> fbr]
    ELSE IF name \notin MonNames \/ mons[name] = Nil THEN [err |-> TRUE, fbr |-> fbr]
    ELSE IF fbr.FeedbackSources[name] # Nil THEN [err |-> TRUE, fbr |-> fbr]
    ELSE
      LET sigValue == IF significance # {} THEN CHOOSE v \in significance : TRUE ELSE 10
          metricMax == IF maxValue # {} THEN CHOOSE v \in maxValue : TRUE
                       ELSE MetricDefaultMax
          thresholdValue == IF threshold # {} THEN CHOOSE v \in threshold : TRUE ELSE 0
          newSource == NewSource(mons[name].obj, sigValue, metricMax, thresholdValue)
          s == initialiseSources(
                  [fbr EXCEPT !.FeedbackSources[name] = newSource], mons, order)
      IN IF s.err THEN [err |-> TRUE,
                        fbr |-> [s.fbr EXCEPT !.FeedbackSources[name] = Nil]]
         ELSE s

EditFeedbackSource(fbr, name, significance, maxValue, threshold, mons, order) ==
    IF name \notin MonNames \/ fbr.FeedbackSources[name] = Nil
    THEN [err |-> TRUE, fbr |-> fbr]
    ELSE
      LET unedited == fbr.FeedbackSources[name]
          e1 == IF significance # {}
                THEN [unedited EXCEPT !.Significance = CHOOSE v \in significance : TRUE]
                ELSE unedited
          e2 == IF maxValue # {}
                THEN [e1 EXCEPT !.MaxValue = CHOOSE v \in maxValue : TRUE] ELSE e1
          e3 == IF threshold # {}
                THEN [e2 EXCEPT !.Threshold = CHOOSE v \in threshold : TRUE] ELSE e2
          s == initialiseSources([fbr EXCEPT !.FeedbackSources[name] = e3], mons, order)
      IN IF s.err THEN [err |-> TRUE,
                        fbr |-> [s.fbr EXCEPT !.FeedbackSources[name] = unedited]]
         ELSE s

DeleteFeedbackSource(fbr, name, mons, order) ==
    IF name \notin MonNames \/ fbr.FeedbackSources[name] = Nil
    THEN [err |-> TRUE, fbr |-> fbr]
    ELSE initialiseSources([fbr EXCEPT !.FeedbackSources[name] = Nil], mons, order)

\* -------------------------------------------------------------- API layer
\* An APIRequest; a pointer field is the empty set (nil) or a singleton.
AgentAPIKey == "key"
Opt(x) == x # {}
Val(x) == CHOOSE v \in x : TRUE

BaseRequest(key, action, type, target) ==
    [APIKey |-> key, Action |-> action, Type |-> type, TargetName |-> target,
     MetricType |-> {}, MetricInterval |-> {}, MetricParams |-> {},
     SmartShape |-> {}, ProtocolName |-> {}, ListenIPAddress |-> {},
     ListenPort |-> {}, ThresholdMode |-> {}, ThresholdScore |-> {},
     CommandList |-> {}, CommandInterval |-> {}, SourceMonitorName |-> {},
     SourceSignificance |-> {}, SourceMaxValue |-> {}, LogStateChanges |-> {},
     FeedbackSources |-> {}]

\* The agent's mutable state as one value: M monitors, H parameter maps,
\* R responders, U unsavedChanges, X process ended by a runtime fatal error.
AgentState(M, H, R, U) == [M |-> M, H |-> H, R |-> R, U |-> U, X |-> FALSE]

\* The outcome of a handler; why tells a rejected validation ("validation")
\* and a runtime fatal error ("fatal") from the other errors.
Ok(A) == [A |-> A, err |-> FALSE, unknownType |-> FALSE, why |-> ""]
Fail(A) == [A |-> A, err |-> TRUE, unknownType |-> FALSE, why |-> "error"]
Rejected(A) == [A |-> A, err |-> TRUE, unknownType |-> FALSE, why |-> "validation"]
Fatal(A) == [A |-> [A EXCEPT !.X = TRUE], err |-> TRUE, unknownType |-> FALSE,
             why |-> "fatal"]
Outcome(A, err) == IF err THEN Fail(A) ELSE Ok(A)

\* The validation without the comparison of the key.
ValidateAPIRequestTargetOnly(request) ==
    IF request.Type \in {"monitor", "responder"} /\ request.TargetName = ""
    THEN "missing-target"
    ELSE ""

ValidateAPIRequest(request) ==
    IF request.Type \in {"monitor", "responder"} /\ request.TargetName = ""
    THEN "missing-target"
    ELSE IF request.APIKey = "" \/ request.APIKey # AgentAPIKey
    THEN "bad-api-key"
    ELSE ""

GetResponderByName(A, name) == name \in RespNames /\ A.R[name] # Nil
GetMonitorByName(A, name) == name \in MonNames /\ A.M[name] # Nil

APIAddMonitor(A, request) ==
    IF ~Opt(request.MetricType) THEN Fail(A)
    ELSE IF request.TargetName \notin MonNames THEN Fail(A)
    ELSE IF \A i \in ParamIds : i \in UsedParamIds(A.M) THEN Fail(A)
    ELSE
      LET name == request.TargetName
          pid == CHOOSE i \in ParamIds : i \notin UsedParamIds(A.M)
          params == IF Opt(request.MetricParams) THEN Val(request.MetricParams)
                    ELSE EmptyParams
          mon == [MetricType |-> Val(request.MetricType),
                  Interval |-> IF Opt(request.MetricInterval)
                               THEN Val(request.MetricInterval) ELSE 0,
                  Params |-> pid,
                  SmartShape |-> IF Opt(request.SmartShape)
                                 THEN Val(request.SmartShape) ELSE FALSE,
                  runState |-> FALSE, obj |-> FreshObj(A.M, A.R)]
          i == InitialiseMonitor(mon, [A.H EXCEPT ![pid] = params])
      IN IF i.err THEN Fail(A)
         ELSE IF A.M[name] # Nil THEN Fail(A)
         ELSE Ok([A EXCEPT !.M[name] = [i.mon EXCEPT !.runState = TRUE],
                           !.H = i.H, !.U = TRUE])

APIEditMonitor(A, request) ==
    LET name == request.TargetName
        oldMonitor == A.M[name]
        typeGiven == Opt(request.MetricType) /\ Val(request.MetricType) # ""
        intervalGiven == Opt(request.MetricInterval)
        shapeGiven == Opt(request.SmartShape)
        given == IF Opt(request.MetricParams)
                 THEN {k \in ParamKeys : Val(request.MetricParams)[k] # ""} ELSE {}
        newMonitor ==
            [CopyMonitor(oldMonitor) EXCEPT
                !.MetricType = IF typeGiven THEN Val(request.MetricType) ELSE @,
                !.Interval = IF intervalGiven THEN Val(request.MetricInterval) ELSE @,
                !.SmartShape = IF shapeGiven THEN Val(request.SmartShape) ELSE @,
                !.obj = FreshObj(A.M, A.R)]
        \* newMonitor.Params[key] = value: a write into the map both objects hold
        H1 == [A.H EXCEPT ![oldMonitor.Params] =
                 [k \in ParamKeys |-> IF k \in given THEN Val(request.MetricParams)[k]
                                      ELSE @[k]]]
        valid == typeGiven \/ intervalGiven \/ given # {} \/ shapeGiven
        replaced(i, started) ==
            Ok([A EXCEPT
                  !.M[name] = started,
                  !.H = i.H,
                  !.R = [n \in RespNames |->
                           IF A.R[n] # Nil /\ A.R[n].FeedbackSources[name] # Nil
                           THEN [A.R[n] EXCEPT !.FeedbackSources[name].Monitor = started.obj]
                           ELSE A.R[n]],
                  !.U = TRUE])
        done(new, i) ==
            IF ~(\/ new.MetricType # oldMonitor.MetricType
                 \/ new.Interval # oldMonitor.Interval
                 \/ given # {}
                 \/ new.SmartShape # oldMonitor.SmartShape)
            THEN (IF valid THEN Ok([A EXCEPT !.H = H1]) ELSE Fail([A EXCEPT !.H = H1]))
            ELSE IF i.err THEN Rejected([A EXCEPT !.H = i.H])
            ELSE replaced(i, [i.mon EXCEPT !.runState = oldMonitor.runState])
    IN done(newMonitor, InitialiseMonitor(newMonitor, H1))

\* SystemMonitor.Stop: refused when the monitor is not running.
StopMonitor(mon) ==
    IF mon.runState THEN [err |-> FALSE, mon |-> [mon EXCEPT !.runState = FALSE]]
    ELSE [err |-> TRUE, mon |-> mon]

\* DeleteMonitorByName stops the monitor through StopMonitorByName first and
\* gives up when that Stop returns an error.
DeleteMonitorByName(A, name) ==
    IF ~GetMonitorByName(A, name) THEN Fail(A)
    ELSE LET st == StopMonitor(A.M[name]) IN
         IF st.err THEN Fail(A) ELSE Ok([A EXCEPT !.M[name] = Nil])

\* The deletion without the search for responders that use the monitor.
APIDeleteMonitorUnused(A, request) ==
    LET name == request.TargetName
        A1 == IF A.M[name].runState
              THEN [A EXCEPT !.M[name] = StopMonitor(A.M[name]).mon] ELSE A
        d == DeleteMonitorByName(A1, name)
    IN IF d.err THEN d ELSE Ok([d.A EXCEPT !.U = TRUE])

APIDeleteMonitor(A, request) ==
    LET name == request.TargetName IN
    IF \E n \in RespNames : A.R[n] # Nil /\ A.R[n].FeedbackSources[name] # Nil
    THEN Fail(A)
    ELSE LET A1 == IF A.M[name].runState
                   THEN [A EXCEPT !.M[name] = StopMonitor(A.M[name]).mon] ELSE A
             d == DeleteMonitorByName(A1, name)
         IN IF d.err THEN d ELSE Ok([d.A EXCEPT !.U = TRUE])

APIHandleMonitorRequest(A, request) ==
    IF request.Action = "add" THEN APIAddMonitor(A, request)
    ELSE IF ~GetMonitorByName(A, request.TargetName) THEN Fail(A)
    ELSE CASE request.Action = "edit" -> APIEditMonitor(A, request)
           [] request.Action = "delete" -> APIDeleteMonitor(A, request)
           [] request.Action = "start" ->
                IF A.M[request.TargetName].runState THEN Fail(A)
                ELSE Ok([A EXCEPT !.M[request.TargetName].runState = TRUE])
           [] request.Action = "stop" ->
                IF A.M[request.TargetName].runState
                THEN Ok([A EXCEPT !.M[request.TargetName].runState = FALSE])
                ELSE Fail(A)
           [] request.Action = "restart" ->
                IF A.M[request.TargetName].runState THEN Ok(A) ELSE Fail(A)
           [] OTHER -> Fail(A)

\* StopResponderByName stops only a running responder; DeleteResponderByName
\* then removes the map entry.
DeleteResponderByName(A, name) ==
    IF ~GetResponderByName(A, name) THEN Fail(A)
    ELSE Ok([A EXCEPT !.R[name] = Nil])

\* The deletion without the test for the API responder's name.
APIDeleteResponderAny(A, request) ==
    DeleteResponderByName(A, request.TargetName)

APIDeleteResponder(A, request) ==
    IF request.TargetName = ResponderNameAPI THEN Fail(A)
    ELSE DeleteResponderByName(A, request.TargetName)

\* The source map of an edit request: name -> [sig, max, thr] or Nil.
RequestSources(fs, A) ==
    [k \in MonNames |->
        IF fs[k] = Nil THEN Nil
        ELSE NewSource(0, fs[k].Significance, fs[k].MaxValue, fs[k].Threshold)]

APIEditResponder(A, request, t, order) ==
    LET name == request.TargetName
        Pick(opt, old) == IF Opt(opt) THEN Val(opt) ELSE old
        newResponder ==
            [CopyResponder(A.R[name]) EXCEPT
                !.FeedbackSources = IF Opt(request.FeedbackSources)
                                    THEN RequestSources(Val(request.FeedbackSources), A)
                                    ELSE @,
                !.ProtocolName = Pick(request.ProtocolName, @),
                !.ListenIPAddress = Pick(request.ListenIPAddress, @),
                !.ListenPort = Pick(request.ListenPort, @),
                !.ThresholdModeName = Pick(request.ThresholdMode, @),
                !.ThresholdScore = Pick(request.ThresholdScore, @),
                !.LogStateChanges = Pick(request.LogStateChanges, @)]
        \* the copy shares the sources of the live object unless the request
        \* brought its own map: initialiseSources then writes through to them
        live(i) == [A EXCEPT !.R[name].FeedbackSources =
                       IF Opt(request.FeedbackSources) THEN @
                       ELSE i.fbr.FeedbackSources]
        done(i) ==
            IF i.fatal THEN Fatal(live(i))
            ELSE IF i.err THEN Rejected(live(i))
            ELSE Ok([A EXCEPT !.R[name] = IF A.R[name].runState
                                          THEN StartResponder(i.fbr, t).fbr
                                          ELSE i.fbr,
                              !.U = TRUE])
    IN IF Opt(request.ProtocolName) /\ name = ResponderNameAPI THEN Fail(A)
       ELSE done(Initialise(newResponder, A.M, order, t))

\* APIAddResponder: AddResponder (NewResponder, Initialise), then Start.  The
\* handler dereferences request.FeedbackSources: without it the request
\* panics, which GetResponse recovers, and nothing has been changed.
APIAddResponder(A, request, t, order) ==
    LET name == request.TargetName
        Pick(opt, zero) == IF Opt(opt) THEN Val(opt) ELSE zero
        fbr == ResponderObject(Val(request.ProtocolName),
                   Val(request.ListenIPAddress), Val(request.ListenPort),
                   RequestSources(Val(request.FeedbackSources), A),
                   Pick(request.CommandList, <<>>), DefaultCommandInterval,
                   Pick(request.ThresholdMode, ""),
                   Pick(request.ThresholdScore, 0), FALSE)
        added(i) ==
            IF i.fatal THEN Fatal(A)
            ELSE IF i.err THEN Rejected(A)
            ELSE Ok([A EXCEPT !.R[name] = StartResponder(i.fbr, t).fbr,
                              !.U = TRUE])
    IN IF ~Opt(request.ProtocolName) \/ ~Opt(request.ListenIPAddress)
          \/ ~Opt(request.ListenPort)
       THEN Fail(A)
       ELSE IF ~Opt(request.FeedbackSources) THEN [Fail(A) EXCEPT !.why = "panic"]
       ELSE IF A.R[name] # Nil THEN Fail(A)
       ELSE added(Initialise(fbr, A.M, order, t))

APIHandleResponderRequest(A, request, t, order) ==
    IF request.Action = "add" THEN APIAddResponder(A, request, t, order)
    ELSE IF ~GetResponderByName(A, request.TargetName) THEN Fail(A)
    ELSE LET name == request.TargetName IN
         CASE request.Action = "edit" -> APIEditResponder(A, request, t, order)
           [] request.Action = "delete" -> APIDeleteResponder(A, request)
           [] request.Action = "start" ->
                LET st == StartResponder(A.R[name], t) IN
                Outcome([A EXCEPT !.R[name] = st.fbr], st.err)
           [] request.Action = "stop" ->
                LET st == StopResponder(A.R[name]) IN
                Outcome([A EXCEPT !.R[name] = st.fbr], st.err)
           [] request.Action = "restart" ->
                LET st == StartResponder([A.R[name] EXCEPT !.runState = FALSE], t) IN
                Outcome([A EXCEPT !.R[name] = st.fbr], st.err)
           [] OTHER -> Fail(A)

APIHandleSourceRequest(A, request, order) ==
    IF ~GetResponderByName(A, request.TargetName) THEN Fail(A)
    ELSE IF ~Opt(request.SourceMonitorName) THEN Fail(A)
    ELSE
      LET name == request.TargetName
          mon == Val(request.SourceMonitorName)
          res == CASE request.Action = "add" ->
                        AddFeedbackSource(A.R[name], mon, request.SourceSignificance,
                            request.SourceMaxValue, request.ThresholdScore, A.M, order)
                   [] request.Action = "edit" ->
                        EditFeedbackSource(A.R[name], mon, request.SourceSignificance,
                            request.SourceMaxValue, request.ThresholdScore, A.M, order)
                   [] request.Action = "delete" ->
                        DeleteFeedbackSource(A.R[name], mon, A.M, order)
                   [] OTHER -> [err |-> TRUE, fbr |-> A.R[name]]
      IN IF request.Action \notin {"add", "edit", "delete"} THEN Fail(A)
         ELSE Outcome([A EXCEPT !.R[name] = res.fbr, !.U = TRUE], res.err)

\* The handler latching every command, `send` included, with the default
\* mask of its polarity as the override.
APIHandleSetOnlineStateMasked(A, name, isOnline, commandMask, t) ==
    IF name # "" /\ ~GetResponderByName(A, name) THEN Fail(A)
    ELSE Ok([A EXCEPT !.R =
               [n \in RespNames |->
                  IF A.R[n] # Nil /\ (name = "" \/ n = name)
                  THEN SetCommandState(A.R[n], isOnline, TRUE,
                          IF commandMask # HAPEnumNone THEN commandMask
                          ELSE IF isOnline THEN HAPDefaultOnline
                          ELSE HAPDefaultOffline, t)
                  ELSE A.R[n]]])

APIHandleSetOnlineState(A, name, isOnline, commandMask, t) ==
    IF name # "" /\ ~GetResponderByName(A, name) THEN Fail(A)
    ELSE Ok([A EXCEPT !.R =
               [n \in RespNames |->
                  IF A.R[n] # Nil /\ (name = "" \/ n = name)
                  THEN SetCommandState(A.R[n], isOnline, TRUE, commandMask, t)
                  ELSE A.R[n]]])

APIHandleSetThreshold(A, request) ==
    IF ~GetResponderByName(A, request.TargetName) THEN Fail(A)
    ELSE
      LET name == request.TargetName
          v == IF Opt(request.ThresholdScore)
               THEN ConfigureThresholdValue(A.R[name], Val(request.ThresholdScore))
               ELSE [err |-> FALSE, fbr |-> A.R[name]]
          m == IF Opt(request.ThresholdMode)
               THEN ConfigureThresholdMode(v.fbr, Val(request.ThresholdMode))
               ELSE [err |-> FALSE, fbr |-> v.fbr]
          changed == Opt(request.ThresholdScore) \/ Opt(request.ThresholdMode)
      IN IF v.err THEN Rejected([A EXCEPT !.R[name] = v.fbr])
         ELSE IF m.err THEN Rejected([A EXCEPT !.R[name] = m.fbr])
         ELSE IF ~changed THEN Fail(A)
         ELSE Ok([A EXCEPT !.R[name] = m.fbr, !.U = TRUE])

APIHandleSetCommands(A, request, replace, t) ==
    IF ~GetResponderByName(A, request.TargetName) THEN Fail(A)
    ELSE
      LET name == request.TargetName
          c == IF Opt(request.CommandList)
               THEN ConfigureCommands(A.R[name], Val(request.CommandList), replace,
                                      FALSE, t)
               ELSE [err |-> FALSE, fbr |-> A.R[name]]
          i == IF Opt(request.CommandInterval)
               THEN ConfigureInterval(c.fbr, Val(request.CommandInterval))
               ELSE [err |-> FALSE, fbr |-> c.fbr]
      IN IF c.err THEN Rejected([A EXCEPT !.R[name] = c.fbr])
         ELSE IF i.err THEN Rejected([A EXCEPT !.R[name] = i.fbr])
         ELSE Ok([A EXCEPT !.R[name] = i.fbr, !.U = TRUE])

\* StopAllServices then StartAllServices; the error of a Stop on a service
\* that was not running is joined into the result.
RestartAllServices(A, t) ==
    LET stopErr == \/ \E n \in RespNames : A.R[n] # Nil /\ ~A.R[n].runState
                   \/ \E n \in MonNames : A.M[n] # Nil /\ ~A.M[n].runState
        A1 == [A EXCEPT
                 !.M = [n \in MonNames |->
                          IF A.M[n] = Nil THEN Nil ELSE [A.M[n] EXCEPT !.runState = TRUE]],
                 !.R = [n \in RespNames |->
                          IF A.R[n] = Nil THEN Nil
                          ELSE StartResponder([A.R[n] EXCEPT !.runState = FALSE], t).fbr]]
    IN Outcome(A1, stopErr)

\* HandleFeedback as one call: the latch is rewritten when the test says so.
HandleFeedback(fbr, res, cv, t) ==
    LET a == GetAvailabilityState(fbr, res, cv) IN
    IF ShouldRelatch(fbr, a.online, t)
    THEN SetCommandState(fbr, a.online, FALSE, HAPEnumNone, t)
    ELSE fbr

\* `get feedback`: GetResponse("") of the named responder, which for an API
\* protocol is an API request that cannot be parsed and for the others is
\* HandleFeedback.
APIHandleGetFeedback(A, request, t, res, cv) ==
    LET name == request.TargetName IN
    IF ~GetResponderByName(A, name) THEN Fail(A)
    ELSE IF A.R[name].ProtocolName \in {ProtocolSecureAPI, ProtocolLegacyAPI}
    THEN Ok(A)
    ELSE Ok([A EXCEPT !.R[name] = HandleFeedback(@, res, cv, t)])

apiActionTree(A, request, t, order, res, cv) ==
    LET unknown == [A |-> A, err |-> TRUE, unknownType |-> TRUE, why |-> "error"] IN
    CASE request.Action \in {"add", "edit", "delete", "start", "restart", "stop"} ->
           IF request.TargetName = "" THEN Fail(A)
           ELSE CASE request.Type = "monitor" -> APIHandleMonitorRequest(A, request)
                  [] request.Type = "responder" ->
                       APIHandleResponderRequest(A, request, t, order)
                  [] request.Type = "source" -> APIHandleSourceRequest(A, request, order)
                  [] request.Type = "agent" ->
                       CASE request.Action = "restart" -> RestartAllServices(A, t)
                         [] request.Action = "stop" -> Ok(A)
                         [] OTHER -> unknown
                  [] OTHER -> unknown
      [] request.Action = "status" -> Ok(A)
      [] request.Action = "get" ->
           CASE request.Type = "config" -> Ok(A)
             [] request.Type = "feedback" ->
                  APIHandleGetFeedback(A, request, t, res, cv)
             [] request.Type = "sources" ->
                  Outcome(A, ~GetResponderByName(A, request.TargetName))
             [] OTHER -> unknown
      [] request.Action = "set" ->
           CASE request.Type \in {"commands", "cmd"} ->
                  APIHandleSetCommands(A, request, TRUE, t)
             [] request.Type = "threshold" -> APIHandleSetThreshold(A, request)
             [] OTHER -> unknown
      [] request.Action = "send" ->
           CASE request.Type = "online" ->
                  APIHandleSetOnlineState(A, request.TargetName, TRUE, HAPEnumNone, t)
             [] request.Type = "offline" ->
                  APIHandleSetOnlineState(A, request.TargetName, FALSE, HAPEnumNone, t)
             [] OTHER -> unknown
      [] request.Action = "force" ->
           CASE request.Type \in {"halt", "maint"} ->
                  APIHandleSetOnlineState(A, request.TargetName, FALSE,
                                          HAPEnumMaintenance, t)
             [] request.Type = "drain" ->
                  APIHandleSetOnlineState(A, request.TargetName, FALSE, HAPEnumDrain, t)
             [] request.Type = "online" ->
                  APIHandleSetOnlineState(A, request.TargetName, TRUE,
                                          HAPDefaultOnline, t)
             [] request.Type = "save-config" -> Ok([A EXCEPT !.U = TRUE])
             [] OTHER -> unknown
      [] OTHER -> Fail(A)

\* ------------------------------------------------------------ persistence
\* What ConfigToJSON serialises: the exported, tagged fields.
ConfigOf(A) ==
    [monitors |->
        [n \in MonNames |->
            IF A.M[n] = Nil THEN Nil
            ELSE [MetricType |-> A.M[n].MetricType, Interval |-> A.M[n].Interval,
                  Params |-> A.H[A.M[n].Params], SmartShape |-> A.M[n].SmartShape]],
     responders |->
        [n \in RespNames |->
            IF A.R[n] = Nil THEN Nil
            ELSE [ProtocolName |-> A.R[n].ProtocolName,
                  ListenIPAddress |-> A.R[n].ListenIPAddress,
                  ListenPort |-> A.R[n].ListenPort,
                  FeedbackSources |->
                     [k \in MonNames |->
                        IF A.R[n].FeedbackSources[k] = Nil THEN Nil
                        ELSE [Significance |-> A.R[n].FeedbackSources[k].Significance,
                              MaxValue |-> A.R[n].FeedbackSources[k].MaxValue,
                              Threshold |-> A.R[n].FeedbackSources[k].Threshold]],
                  HAProxyCommands |-> A.R[n].HAProxyCommands,
                  CommandInterval |-> A.R[n].CommandInterval,
                  ThresholdScore |-> A.R[n].ThresholdScore,
                  ThresholdModeName |-> A.R[n].ThresholdModeName,
                  EnableOfflineInterval |-> A.R[n].EnableOfflineInterval,
                  LogStateChanges |-> A.R[n].LogStateChanges]]]


\* ------------------------------------------------- the statistics model
\* A float64 of the model is the exact rational [n, d] in lowest terms with
\* d > 0, so two equal numbers are equal records.
RECURSIVE GCD(_, _)
GCD(a, b) == IF b = 0 THEN a ELSE GCD(b, a % b)
Rat(n, d) ==
    LET g == GCD(IF n < 0 THEN -n ELSE n, d)
    IN  [n |-> n \div g, d |-> d \div g]
RAdd(x, y) == Rat(x.n * y.d + y.n * x.d, x.d * y.d)
RSub(x, y) == Rat(x.n * y.d - y.n * x.d, x.d * y.d)
RMul(x, y) == Rat(x.n * y.n, x.d * y.d)
RLess(x, y) == x.n * y.d < y.n * x.d

\* The configuration of the model under test: ParamsSet, statistics enabled,
\* no Z-mean threshold (handleZWindow then does no work), and a count limit
\* small enough to be met.
XCountLimit == 2
\* the observations a metric yields, and how many the model is given
ObservedValues == {Rat(1, 1), Rat(3, 1), Rat(5, 1)}
MaxObservations == 5

\* ClearModel. XStdDev is held as its square, the value recalcStdDev takes
\* the root of; the Z-score fields, which feed nothing when the threshold is
\* zero, are left out.
ClearModel ==
    [XLastValue |-> Rat(0, 1), XCount |-> 0, XAdjustedMean |-> Rat(0, 1),
     XStdDevSquared |-> Rat(0, 1), XSum |-> Rat(0, 1),
     XSquaredSum |-> Rat(0, 1), XMin |-> Rat(0, 1), XMax |-> Rat(0, 1),
     Recentred |-> FALSE]

addXValue(model, value) ==
    [model EXCEPT !.XSum = RAdd(model.XSum, value),
                  !.XSquaredSum = RAdd(model.XSquaredSum, RMul(value, value)),
                  !.XCount = model.XCount + 1,
                  !.XLastValue = value]

updateMinMax(model) ==
    IF model.XCount < 2
    THEN [model EXCEPT !.XMin = model.XLastValue, !.XMax = model.XLastValue]
    ELSE [model EXCEPT
            !.XMin = IF RLess(model.XLastValue, model.XMin)
                     THEN model.XLastValue ELSE model.XMin,
            !.XMax = IF RLess(model.XMax, model.XLastValue)
                     THEN model.XLastValue ELSE model.XMax]

recalcMean(model) ==
    [model EXCEPT !.XAdjustedMean = RMul(model.XSum, Rat(1, model.XCount))]

\* (s2 / n) - (s1 / n) ^ 2, the square of what recalcStdDev stores
SumsVariance(model) ==
    LET mean == RMul(model.XSum, Rat(1, model.XCount))
    IN  RSub(RMul(model.XSquaredSum, Rat(1, model.XCount)), RMul(mean, mean))

recalcStdDev(model) == [model EXCEPT !.XStdDevSquared = SumsVariance(model)]

\* recentreMean, then the Recentred flag of RecentreModel
RecentreModel(model) ==
    [model EXCEPT !.XCount = 1,
                  !.XSum = model.XAdjustedMean,
                  !.XSquaredSum = RMul(model.XAdjustedMean, model.XAdjustedMean),
                  !.Recentred = TRUE]

NewValue(model, value) ==
    LET m == [model EXCEPT !.Recentred = FALSE]
    IN  IF m.XCount + 1 > XCountLimit
        THEN RecentreModel(m)
        ELSE recalcStdDev(recalcMean(updateMinMax(addXValue(m, value))))

\* One sample of the metric is observed into the model.
Observe(value) ==
    /\ stats.seen < MaxObservations
    /\ stats' = [model |-> NewValue(stats.model, value),
                 seen |-> stats.seen + 1, value |-> value]
    /\ UNCHANGED <<now, Monitors, paramHeap, Responders, unsavedChanges, saved,
                   crashed, result, req, reply, lastAPI, haltAt, introduced,
                   mainLoop, wire, sysmon, svc, edit, apiServer>>


\* ----------------------------------------------- the responder's worker
\* One TCP FeedbackResponder at the level of its goroutines. A channel is
\* the number of the run() that made it (0: none). worker is the place of
\* the run() that holds the run state: "announce" (sending the running
\* status), "listen" (before net.Listen), "accept" (in the accept loop),
\* "returned" (Listen has returned) or "none"; sending holds the channels on
\* which an exited run() is still sending its stopped status. call[c] is
\* caller c inside Start ("start-wait", "start-got") or Stop ("stop-close",
\* "stop-recv", "stop-wait"), the channel it waits on, what it received, and
\* whether no Start was called since it called Stop (clean).
\* LastError is "nil", "running" (start refused), "listen" (bind failed) or
\* "closed" (accept on a closed listener). History: bindFailed, the runs
\* whose net.Listen failed; ret, what the Start of each run returned and
\* whether the listener was then accepting; sinceStop, a clean Stop has
\* returned and no Start was called since; last, whether the last step
\* accepted a connection ("accept") or not ("step").
MaxRuns == 2
Runs == 1..MaxRuns
IdleCall == [pc |-> "idle", ch |-> 0, got |-> "none", clean |-> FALSE]
NewResponder ==
    [runState |-> FALSE, LastError |-> "nil", statusChannel |-> 0,
     listener |-> "none", worker |-> "none", chan |-> 0, sending |-> {},
     call |-> [c \in Callers |-> IdleCall], runs |-> 0, bindFailed |-> {},
     ret |-> [g \in Runs |-> "none"], sinceStop |-> FALSE, last |-> "step"]

svcRest == <<now, Monitors, paramHeap, Responders, unsavedChanges, saved,
             crashed, result, req, reply, lastAPI, haltAt, introduced,
             mainLoop, wire, sysmon, stats, edit, apiServer>>

\* Start, up to its wait on the init channel, and the entry of the run() it
\* spawns: a run() that finds the responder running records the refusal and
\* hands the stopped status to its Start; otherwise it takes the run state
\* and makes its init channel the status channel.
ResponderStart(c) ==
    /\ svc.call[c].pc = "idle"
    /\ svc.runState \/ svc.runs < MaxRuns
    /\ LET unclean == [d \in Callers |-> [svc.call[d] EXCEPT !.clean = FALSE]]
       IN  svc' =
             IF svc.runState
             THEN [svc EXCEPT
                     !.LastError = "running",
                     !.call = [unclean EXCEPT ![c] =
                                 [pc |-> "start-got", ch |-> 0,
                                  got |-> "stopped", clean |-> FALSE]],
                     !.sinceStop = FALSE, !.last = "step"]
             ELSE [svc EXCEPT
                     !.LastError = "nil",
                     !.statusChannel = svc.runs + 1,
                     !.runState = TRUE,
                     !.worker = "announce", !.chan = svc.runs + 1,
                     !.runs = svc.runs + 1,
                     !.call = [unclean EXCEPT ![c] =
                                 [pc |-> "start-wait", ch |-> svc.runs + 1,
                                  got |-> "none", clean |-> FALSE]],
                     !.sinceStop = FALSE, !.last = "step"]
    /\ UNCHANGED svcRest

\* run() announces the running status on the status channel to whichever
\* caller is receiving from it: its Start, or a Stop, which then loops.
ResponderAnnounce(c) ==
    /\ svc.worker = "announce"
    /\ svc.call[c].pc \in {"start-wait", "stop-wait"}
    /\ svc.call[c].ch = svc.chan
    /\ svc' = [svc EXCEPT
                 !.worker = "listen",
                 !.call[c] = IF svc.call[c].pc = "start-wait"
                             THEN [svc.call[c] EXCEPT !.pc = "start-got",
                                                      !.got = "running"]
                             ELSE [svc.call[c] EXCEPT !.pc = "stop-recv"],
                 !.last = "step"]
    /\ UNCHANGED svcRest

\* TCPConnector.Listen: net.Listen binds the address or fails.
ResponderBind(ok) ==
    /\ svc.worker = "listen"
    /\ svc' = IF ok
              THEN [svc EXCEPT !.listener = "open", !.worker = "accept",
                               !.last = "step"]
              ELSE [svc EXCEPT !.listener = "none", !.LastError = "listen",
                               !.worker = "returned",
                               !.bindFailed = @ \cup {svc.chan},
                               !.last = "step"]
    /\ UNCHANGED svcRest

\* Accept returns a connection from a client
ResponderAccept ==
    /\ svc.worker = "accept" /\ svc.listener = "open"
    /\ svc' = [svc EXCEPT !.last = "accept"]
    /\ UNCHANGED svcRest

\* or the error of a closed listener, which ends the accept loop.
ResponderAcceptError ==
    /\ svc.worker = "accept" /\ svc.listener # "open"
    /\ svc' = [svc EXCEPT !.LastError = "closed", !.worker = "returned",
                          !.last = "step"]
    /\ UNCHANGED svcRest

\* The end of a run() that leaves the run state set.
ResponderRunExitRunning ==
    /\ svc.worker = "returned"
    /\ svc' = [svc EXCEPT !.worker = "none",
                          !.sending = @ \cup {svc.chan}, !.last = "step"]
    /\ UNCHANGED svcRest

\* The end of run(): the run state is cleared under the mutex and the
\* deferred function sends the stopped status on the init channel.
ResponderRunExit ==
    /\ svc.worker = "returned"
    /\ svc' = [svc EXCEPT !.runState = FALSE, !.worker = "none",
                          !.sending = @ \cup {svc.chan}, !.last = "step"]
    /\ UNCHANGED svcRest

\* The stopped status of an exited run() is received by a caller waiting on
\* its channel: a Start, or a Stop, which returns.
ResponderStopped(c) ==
    /\ svc.call[c].pc \in {"start-wait", "stop-wait"}
    /\ svc.call[c].ch \in svc.sending
    /\ svc' = [svc EXCEPT
                 !.sending = @ \ {svc.call[c].ch},
                 !.call[c] = IF svc.call[c].pc = "start-wait"
                             THEN [svc.call[c] EXCEPT !.pc = "start-got",
                                                      !.got = "stopped"]
                             ELSE IdleCall,
                 !.sinceStop = IF svc.call[c].pc = "stop-wait"
                               THEN svc.call[c].clean ELSE @,
                 !.last = "step"]
    /\ UNCHANGED svcRest

\* The rest of Start: under the mutex it logs and returns LastError, nil
\* after the running status. With the stopped status and no error to log it
\* panics on LastError.Error().
ResponderStartReturn(c) ==
    /\ svc.call[c].pc = "start-got"
    /\ LET ok == svc.call[c].got = "running" /\ svc.LastError = "nil"
           g == svc.call[c].ch
           accepting == /\ svc.chan = g /\ svc.worker = "accept"
                        /\ svc.listener = "open"
       IN  svc' = [svc EXCEPT
                     !.call[c] = IdleCall,
                     !.ret = IF g = 0 THEN @
                             ELSE [@ EXCEPT ![g] =
                                     IF ~ok THEN "error"
                                     ELSE IF accepting THEN "ok-accepting"
                                     ELSE "ok-unbound"],
                     !.last = "step"]
    /\ UNCHANGED svcRest

\* Stop: IsRunning, and the error of a responder that is not running
ResponderStop(c) ==
    /\ svc.call[c].pc = "idle"
    /\ svc' = IF svc.runState
              THEN [svc EXCEPT !.call[c] = [pc |-> "stop-close", ch |-> 0,
                                            got |-> "none", clean |-> TRUE],
                               !.last = "step"]
              ELSE [svc EXCEPT !.last = "step"]
    /\ UNCHANGED svcRest

\* Connector.Close under the mutex: a listener that exists is closed
ResponderClose(c) ==
    /\ svc.call[c].pc = "stop-close"
    /\ svc' = [svc EXCEPT
                 !.listener = IF @ = "open" THEN "closed" ELSE @,
                 !.call[c].pc = "stop-recv", !.last = "step"]
    /\ UNCHANGED svcRest

\* and Stop receives from the status channel the field then names.
ResponderReceive(c) ==
    /\ svc.call[c].pc = "stop-recv"
    /\ svc' = [svc EXCEPT !.call[c].pc = "stop-wait",
                          !.call[c].ch = svc.statusChannel,
                          !.last = "step"]
    /\ UNCHANGED svcRest


\* ------------------------------------------- the API responder's server
\* The responder `api` at the level of its HTTP server.  A request arrives on
\* a connection of the server and its handler runs GetResponse, that is
\* ProcessAPIRequest and the action tree, before the response is written;
\* the connection is active while the handler runs.  Caller 0 is agentMain,
\* which restarts all services on the restart signal and has no connection.
\* Request kinds: "get" (anything that leaves the responder `api` alone),
\* and "stop", "restart" and "edit" of the responder `api` and "agent" for
\* `restart agent`, which all call Stop on the responder `api`.
\* call[s]: "idle", "handle" (in the action tree), "shutdown" (in Stop,
\* holding the responder's mutex, inside Connector.Close), "stop-wait" (in
\* Stop, receiving from the status channel), "start" and "respond".
\* worker: run() of the responder: "serve" (in ListenAndServe), "returned"
\* (Listen has returned, run() wants the mutex), "sending" (sending the
\* stopped status), "none".  mutex: -1 when free, else the caller holding it.
Connections == Callers
Stoppers == Callers \cup {0}
RequestKinds == {"get", "stop", "restart", "edit", "agent"}
ServingAPI ==
    [runState |-> TRUE, server |-> "serving", worker |-> "serve", mutex |-> -1,
     conn |-> [c \in Connections |-> "idle"],
     call |-> [s \in Stoppers |-> "idle"],
     kind |-> [s \in Stoppers |-> "get"]]

apiRest == <<now, Monitors, paramHeap, Responders, unsavedChanges, saved,
             crashed, result, req, reply, lastAPI, haltAt, introduced,
             mainLoop, wire, sysmon, stats, svc, edit>>

\* HTTPConnector.handleRequest is called for a request on connection c
HTTPRequest(c, kind) ==
    /\ apiServer.server = "serving"
    /\ apiServer.conn[c] = "idle" /\ apiServer.call[c] = "idle"
    /\ apiServer' = [apiServer EXCEPT !.conn[c] = "active", !.call[c] = "handle",
                                      !.kind[c] = kind]
    /\ UNCHANGED apiRest

\* EventHandleLoop receives the restart signal: RestartAllServices
RestartSignal ==
    /\ apiServer.call[0] = "idle"
    /\ apiServer' = [apiServer EXCEPT !.call[0] = "handle", !.kind[0] = "agent"]
    /\ UNCHANGED apiRest

\* The action tree.  A request that leaves the responder alone is answered.
\* The others call Stop: IsRunning under the mutex; a responder that is not
\* running is not stopped (Stop returns its error, Restart and the others go
\* on to Start); for a running one Stop takes the mutex and calls
\* Connector.Close, that is http.Server.Shutdown with a context that never
\* expires, which closes the listeners at once.
APIActionTree(s) ==
    /\ apiServer.call[s] = "handle"
    /\ IF apiServer.kind[s] = "get"
       THEN apiServer' = [apiServer EXCEPT !.call[s] = "respond"]
       ELSE /\ apiServer.mutex = -1
            /\ apiServer' =
                 IF ~apiServer.runState
                 THEN [apiServer EXCEPT
                          !.call[s] = IF apiServer.kind[s] = "stop" THEN "respond"
                                      ELSE "start"]
                 ELSE [apiServer EXCEPT
                          !.call[s] = "shutdown", !.mutex = s,
                          !.server = IF @ = "serving" THEN "closing" ELSE @]
    /\ UNCHANGED apiRest

\* ListenAndServe returns http.ErrServerClosed once Shutdown has been called
ListenReturns ==
    /\ apiServer.worker = "serve" /\ apiServer.server # "serving"
    /\ apiServer' = [apiServer EXCEPT !.worker = "returned"]
    /\ UNCHANGED apiRest

\* Shutdown returns when every connection of the server is idle; Stop then
\* releases the mutex and waits for the stopped status.
ShutdownReturns(s) ==
    /\ apiServer.call[s] = "shutdown"
    /\ \A c \in Connections : apiServer.conn[c] = "idle"
    /\ apiServer' = [apiServer EXCEPT !.call[s] = "stop-wait", !.mutex = -1,
                                      !.server = "none"]
    /\ UNCHANGED apiRest

\* run() after Listen: it takes the mutex, clears the run state and its
\* deferred function releases the mutex and sends the stopped status.
APIRunExit ==
    /\ apiServer.worker = "returned" /\ apiServer.mutex = -1
    /\ apiServer' = [apiServer EXCEPT !.runState = FALSE, !.worker = "sending"]
    /\ UNCHANGED apiRest

\* Stop receives the stopped status and returns: `stop` is answered, the
\* other requests go on to Start.
StopReturned(s) ==
    /\ apiServer.call[s] = "stop-wait" /\ apiServer.worker = "sending"
    /\ apiServer' = [apiServer EXCEPT
                        !.worker = "none",
                        !.call[s] = IF apiServer.kind[s] = "stop" THEN "respond"
                                    ELSE "start"]
    /\ UNCHANGED apiRest

\* Start: run() refuses when the responder is running, else it serves again.
StartReturned(s) ==
    /\ apiServer.call[s] = "start" /\ apiServer.mutex = -1
    /\ apiServer.worker \in {"none", "serve"}
    /\ apiServer' =
          IF apiServer.runState
          THEN [apiServer EXCEPT !.call[s] = "respond"]
          ELSE [apiServer EXCEPT !.call[s] = "respond", !.runState = TRUE,
                                 !.worker = "serve", !.server = "serving"]
    /\ UNCHANGED apiRest

\* The response is written and the handler returns: the connection is idle
\* again (agentMain goes back to waiting for signals).
HTTPResponse(s) ==
    /\ apiServer.call[s] = "respond"
    /\ apiServer' = [apiServer EXCEPT
                        !.call[s] = "idle",
                        !.conn = IF s \in Connections
                                 THEN [@ EXCEPT ![s] = "idle"] ELSE @]
    /\ UNCHANGED apiRest

\* ------------------------------------------------- the monitor's worker
\* One SystemMonitor at the level of its goroutine: run() (worker "loop",
\* then "exit" between the loop and the stopped status, "none" when gone) and
\* the callers of Stop (stop[c]: "idle", "sending" on the signal channel,
\* "waiting" on the status channel, "stuck" on a channel no worker reads).
\* LastError is "nil", "sample" (a failed sample) or "start" (a refused start).
\* lastFailed, last and logged are history: whether the last sample of this
\* run of the worker failed, the last operation, and what that operation
\* logged about sampling ("error", "cleared" or "none").
StartedMonitor ==
    [runState |-> TRUE, worker |-> "loop", LastError |-> "nil",
     metricFailed |-> FALSE, stop |-> [c \in Callers |-> "idle"],
     lastFailed |-> FALSE, last |-> "started", logged |-> "none"]

\* Start: run() is spawned and takes the mutex; it refuses, recording the
\* error in LastError, when the monitor is running.
MonitorStart ==
    /\ sysmon.worker \in {"none", "loop"}
    /\ sysmon' = IF sysmon.runState
                 THEN [sysmon EXCEPT !.LastError = "start", !.last = "refused",
                                     !.logged = "none"]
                 ELSE [sysmon EXCEPT !.runState = TRUE, !.worker = "loop",
                                     !.LastError = "nil", !.metricFailed = FALSE,
                                     !.lastFailed = FALSE, !.last = "started",
                                     !.logged = "none"]
    /\ UNCHANGED <<now, Monitors, paramHeap, Responders, unsavedChanges, saved,
                   crashed, result, req, reply, lastAPI, haltAt, introduced,
                   mainLoop, wire, stats, svc, edit, apiServer>>

\* The default branch of the worker's select, taken when no caller is sending
\* on the signal channel: a sample that succeeds (ok) or fails.
MonitorSample(ok) ==
    /\ sysmon.worker = "loop" /\ sysmon.runState
    /\ \A c \in Callers : sysmon.stop[c] # "sending"
    /\ sysmon' =
          IF ok
          THEN IF sysmon.LastError # "nil" /\ sysmon.metricFailed
               THEN [sysmon EXCEPT !.metricFailed = FALSE, !.LastError = "nil",
                                   !.lastFailed = FALSE, !.last = "ok",
                                   !.logged = "cleared"]
               ELSE [sysmon EXCEPT !.lastFailed = FALSE, !.last = "ok",
                                   !.logged = "none"]
          ELSE IF sysmon.LastError = "nil"
               THEN [sysmon EXCEPT !.metricFailed = TRUE, !.LastError = "sample",
                                   !.lastFailed = TRUE, !.last = "fail",
                                   !.logged = "error"]
               ELSE [sysmon EXCEPT !.lastFailed = TRUE, !.last = "fail",
                                   !.logged = "none"]
    /\ UNCHANGED <<now, Monitors, paramHeap, Responders, unsavedChanges, saved,
                   crashed, result, req, reply, lastAPI, haltAt, introduced,
                   mainLoop, wire, stats, svc, edit, apiServer>>

\* Stop: refused when the monitor is not running, else the caller sends the
\* stop value on the signal channel.
MonitorStop(c) ==
    /\ sysmon.stop[c] = "idle"
    /\ sysmon' = IF sysmon.runState
                 THEN [sysmon EXCEPT !.stop[c] = "sending", !.last = "stop",
                                     !.logged = "none"]
                 ELSE [sysmon EXCEPT !.last = "not-running", !.logged = "none"]
    /\ UNCHANGED <<now, Monitors, paramHeap, Responders, unsavedChanges, saved,
                   crashed, result, req, reply, lastAPI, haltAt, introduced,
                   mainLoop, wire, stats, svc, edit, apiServer>>

\* The worker receives the stop value of caller c and leaves its loop; its
\* signal channel is read by no one from then on.
MonitorSignal(c) ==
    /\ sysmon.worker = "loop" /\ sysmon.stop[c] = "sending"
    /\ sysmon' = [sysmon EXCEPT
                     !.runState = FALSE, !.worker = "exit",
                     !.stop = [d \in Callers |->
                                 IF d = c THEN "waiting"
                                 ELSE IF sysmon.stop[d] = "sending" THEN "stuck"
                                 ELSE sysmon.stop[d]],
                     !.last = "signal", !.logged = "none"]
    /\ UNCHANGED <<now, Monitors, paramHeap, Responders, unsavedChanges, saved,
                   crashed, result, req, reply, lastAPI, haltAt, introduced,
                   mainLoop, wire, stats, svc, edit, apiServer>>

\* A Stop that returns once its stop value is on the way, without the
\* worker's acknowledgement.
MonitorStoppedUnacknowledged(c) ==
    /\ sysmon.stop[c] \in {"sending", "waiting"}
    /\ sysmon' = [sysmon EXCEPT !.stop[c] = "idle",
                                !.last = "stopped", !.logged = "none"]
    /\ UNCHANGED <<now, Monitors, paramHeap, Responders, unsavedChanges, saved,
                   crashed, result, req, reply, lastAPI, haltAt, introduced,
                   mainLoop, wire, stats, svc, edit, apiServer>>

\* sendStoppedStatus: the worker's last send, received by the waiting caller,
\* whose Stop returns.
MonitorStopped(c) ==
    /\ sysmon.worker = "exit" /\ sysmon.stop[c] = "waiting"
    /\ sysmon' = [sysmon EXCEPT !.worker = "none", !.stop[c] = "idle",
                                !.last = "stopped", !.logged = "none"]
    /\ UNCHANGED <<now, Monitors, paramHeap, Responders, unsavedChanges, saved,
                   crashed, result, req, reply, lastAPI, haltAt, introduced,
                   mainLoop, wire, stats, svc, edit, apiServer>>

\* ------------------------------------------------------------------ boot
\* SetDefaultServiceConfig, or a config file that sets the fields listed,
\* followed by StartAllServices at time t.
BootMonitors ==
    [n \in MonNames |->
        IF n = "cpu"
        THEN [MetricType |-> "cpu", Interval |-> 500, Params |-> 1,
              SmartShape |-> FALSE, runState |-> TRUE, obj |-> 1]
        ELSE Nil]

BootParams ==
    [i \in ParamIds |-> IF i = 1 THEN NewMetric("cpu", EmptyParams).params
                        ELSE EmptyParams]

BootResponders(commands, interval, mode, score, eoi, srcThreshold, t) ==
    [n \in RespNames |->
        [(IF n = ResponderNameAPI
          THEN StartResponder(
               Initialise(ResponderObject(ProtocolSecureAPI, "127.0.0.1", 3334,
                              NoSources, <<>>, 0, "", 0, FALSE),
                          BootMonitors, <<"cpu", "ram">>, t).fbr, t).fbr
          ELSE StartResponder(
               Initialise(ResponderObject("tcp", "*", 3333,
                              [NoSources EXCEPT !["cpu"] =
                                   NewSource(0, 10, 100, srcThreshold)],
                              commands, interval, mode, score, eoi),
                          BootMonitors, <<"cpu", "ram">>, t).fbr, t).fbr)
         EXCEPT !.listening = TRUE]]

NoRequest == [pc |-> "idle", timestamp |-> 0, thresholdState |-> FALSE,
              availability |-> 0]
NoReply == [built |-> FALSE]
NoHalt == [set |-> FALSE, t |-> 0, c |-> 0]
NoAPI == [done |-> FALSE]
TrackedFields == {"CommandInterval", "ThresholdScore", "HAProxyCommands"}
NoneIntroduced == [n \in RespNames |-> [f \in TrackedFields |-> {}]]
NoWire == [done |-> FALSE]
NoEdit == [pc |-> "idle"]

InitWith(commands, intervals, modes, scores, eois, srcThresholds) ==
    /\ now = 1
    /\ Monitors = BootMonitors
    /\ paramHeap = BootParams
    /\ result = [m \in MonNames |-> 0]
    /\ \E i \in intervals, m \in modes, sc \in scores, e \in eois, th \in srcThresholds :
          Responders = BootResponders(commands, i, m, sc, e, th, 1)
    /\ unsavedChanges = FALSE
    /\ saved = ConfigOf(AgentState(Monitors, paramHeap, Responders, FALSE))
    /\ crashed = FALSE
    /\ req = [c \in Clients |-> NoRequest]
    /\ reply = NoReply
    /\ lastAPI = NoAPI
    /\ haltAt = NoHalt
    /\ introduced = NoneIntroduced
    /\ mainLoop = "waiting"
    /\ wire = NoWire
    /\ sysmon = StartedMonitor
    /\ stats = [model |-> ClearModel, seen |-> 0, value |-> 0]
    /\ svc = NewResponder
    /\ edit = NoEdit
    /\ apiServer = ServingAPI

\* ------------------------------------------------------ feedback requests
\* The responder the load balancer polls.
Polled == "default"

agentVars == <<Monitors, paramHeap, Responders, unsavedChanges, saved, crashed>>
\* lastAPI is the API request the last step completed and reply the feedback
\* reply the last step built, if it did.
histVars == <<haltAt, introduced>>
\* the event loop and the serialisation under test, which the requests leave alone
sideVars == <<sysmon, stats, svc, edit, apiServer>>
auxVars == <<mainLoop, wire, sideVars>>
NotAPI == lastAPI' = NoAPI /\ UNCHANGED histVars
NotReply == reply' = NoReply

Tick ==
    /\ ~crashed
    /\ now < MaxTime
    /\ now' = now + 1
    /\ UNCHANGED <<agentVars, result, req, auxVars>>
    /\ NotAPI /\ NotReply

\* A sample completes in the monitor and the statistics model reports v.
Sample(m, v) ==
    /\ ~crashed
    /\ Monitors[m] # Nil /\ Monitors[m].runState
    /\ result[m] # v
    /\ result' = [result EXCEPT ![m] = v]
    /\ UNCHANGED <<now, agentVars, req, auxVars>>
    /\ NotAPI /\ NotReply

\* The reply of client c, with what held at the moment it was built.
ReplyRecord(c, fbr, thresholdState, availability, timestamp) ==
    LET built == BuildReply(fbr, availability, timestamp)
    IN  [built |-> TRUE, client |-> c,
         tokens |-> built.tokens, avail |-> built.avail, cmd |-> built.cmd,
         thresholdState |-> thresholdState,
         late |-> timestamp > fbr.stateExpiry,
         inHalt |-> haltAt.set /\ now < haltAt.t + haltAt.c,
         online |-> fbr.onlineState, force |-> fbr.forceCommandState,
         override |-> fbr.overrideMask]

\* HandleFeedback, line 893: the timestamp is taken before the mutex.
HFStart(c) ==
    /\ ~crashed
    /\ req[c].pc = "idle"
    /\ Responders[Polled] # Nil /\ Responders[Polled].runState
    /\ req' = [req EXCEPT ![c] = [NoRequest EXCEPT !.pc = "started", !.timestamp = now]]
    /\ UNCHANGED <<now, agentVars, result, auxVars>>
    /\ NotAPI /\ NotReply

\* Lines 894-911 under the mutex: availability, threshold state, the test;
\* without a re-latch the reply is built in the same critical section.
HFCheck(c) ==
    /\ ~crashed
    /\ req[c].pc = "started"
    /\ Responders[Polled] # Nil
    /\ \E fbr \in {Responders[Polled]} :
       \E cv \in NaNToInt :
       \E a \in {GetAvailabilityState(fbr, result, cv)} :
          IF ShouldRelatch(fbr, a.online, req[c].timestamp)
          THEN /\ req' = [req EXCEPT ![c].pc = "relatch",
                                     ![c].thresholdState = a.online,
                                     ![c].availability = a.availability]
               /\ NotReply
          ELSE /\ req' = [req EXCEPT ![c] = NoRequest]
               /\ reply' = ReplyRecord(c, fbr, a.online, a.availability,
                                       req[c].timestamp)
    /\ UNCHANGED <<now, agentVars, result, auxVars>>
    /\ NotAPI

\* Line 912: SetCommandState takes the mutex again by itself.
HFRelatch(c) ==
    /\ ~crashed
    /\ req[c].pc = "relatch"
    /\ Responders[Polled] # Nil
    /\ Responders' = [Responders EXCEPT ![Polled] =
                         SetCommandState(@, req[c].thresholdState, FALSE,
                                         HAPEnumNone, now)]
    /\ req' = [req EXCEPT ![c].pc = "relatched"]
    /\ UNCHANGED <<auxVars, now, Monitors, paramHeap, unsavedChanges, saved, crashed,
                   result>>
    /\ NotAPI /\ NotReply

\* Lines 916-937: the mutex again, and the reply from the latch as it is now.
HFReply(c) ==
    /\ ~crashed
    /\ req[c].pc = "relatched"
    /\ Responders[Polled] # Nil
    /\ reply' = ReplyRecord(c, Responders[Polled], req[c].thresholdState,
                            req[c].availability, req[c].timestamp)
    /\ req' = [req EXCEPT ![c] = NoRequest]
    /\ UNCHANGED <<now, agentVars, result, auxVars>>
    /\ NotAPI

\* ------------------------------------------------------------ API request
IsForceHalt(request) ==
    request.Action = "force" /\ request.Type \in {"halt", "maint"}
    /\ request.TargetName \in {"", Polled}

\* A value a failed request left in a tracked field of responder n.
IntroducedBy(out, request, n, f) ==
    IF out.A.R[n] = Nil \/ Responders[n] = Nil THEN {}
    ELSE IF out.err
    THEN IF out.A.R[n][f] # Responders[n][f]
            /\ (saved.responders[n] = Nil \/ saved.responders[n][f] # out.A.R[n][f])
         THEN {out.A.R[n][f]}
         ELSE introduced[n][f]
    ELSE IF out.A.R[n][f] # Responders[n][f] THEN {}
    ELSE introduced[n][f]

\* ValidateAPIRequest, then the action tree: the outcome and the error id.
APIResult(request, order, cv) ==
    LET A0 == AgentState(Monitors, paramHeap, Responders, unsavedChanges)
        errID == ValidateAPIRequest(request)
    IN IF errID # "" THEN [Fail(A0) EXCEPT !.why = errID]
       ELSE apiActionTree(A0, request, now, order, result, cv)

\* The API keys a response carries: that of the echoed request, which is
\* blanked on the last line of ProcessAPIRequest and so not when the
\* validation has returned before it, and that of the configuration copy of a
\* `get config`, which APIHandleGetConfig blanks.  A recovered panic writes
\* no response.
ResponseKeys(request, out) ==
    IF out.why = "panic" THEN {}
    ELSE IF out.why \in {"missing-target", "bad-api-key"} THEN {request.APIKey}
    ELSE {""} \cup (IF request.Action = "get" /\ request.Type = "config"
                    THEN {""} ELSE {})

\* quitAfterResponding: set by the action tree for a validated `stop` of
\* type `agent` that names a target.
QuitAfterResponding(request) ==
    /\ ValidateAPIRequest(request) = ""
    /\ request.Action = "stop" /\ request.Type = "agent"
    /\ request.TargetName # ""

\* The map iterations a request can meet: only the responder and source
\* requests reach initialiseSources, which ranges over the sources map, and
\* the order of a map of fewer than two entries makes no difference.
OrdersFor(request) ==
    LET n == request.TargetName
        held == IF n \in RespNames /\ Responders[n] # Nil
                THEN SourceNames(Responders[n]) ELSE {}
        brought == IF Opt(request.FeedbackSources)
                   THEN {k \in MonNames : Val(request.FeedbackSources)[k] # Nil}
                   ELSE {}
        named == IF Opt(request.SourceMonitorName)
                 THEN {Val(request.SourceMonitorName)} ELSE {}
    IN IF /\ request.Type \in {"responder", "source"}
          /\ Cardinality(held \cup brought \cup named) > 1
       THEN MapOrders
       ELSE {CHOOSE order \in MapOrders : TRUE}

\* The listen address of responder n of the map R is held by another
\* responder that is listening.
TakenIn(R, n) ==
    \E m \in RespNames \ {n} :
        /\ R[m] # Nil /\ R[m].listening
        /\ R[m].ListenPort = R[n].ListenPort
        /\ \/ R[m].ListenIPAddress = R[n].ListenIPAddress
           \/ "*" \in {R[m].ListenIPAddress, R[n].ListenIPAddress}

\* Start returns LastError as it reads it under the mutex after the running
\* status: run() has gone on to Connector.Listen meanwhile, and when the
\* address is taken Listen may have failed before that read.  Start then
\* returns the listen error; APIEditResponder and Restart return it with the
\* responder registered and not running, APIAddResponder removes the
\* responder again.
StartOutcomes(out, request) ==
    LET n == request.TargetName
        down == [out.A EXCEPT !.R[n].runState = FALSE, !.U = unsavedChanges]
        gone == [out.A EXCEPT !.R[n] = Nil, !.U = unsavedChanges]
    IN IF /\ ~out.err /\ request.Type = "responder"
          /\ request.Action \in {"add", "edit", "start", "restart"}
          /\ n \in RespNames /\ out.A.R[n] # Nil
          /\ out.A.R[n].runState /\ ~out.A.R[n].listening
          /\ TakenIn(out.A.R, n)
       THEN {out, [Fail(IF request.Action = "add" THEN gone ELSE down)
                      EXCEPT !.why = "listen"]}
       ELSE {out}

\* The end of ProcessAPIRequest for the outcome out of the action tree: the
\* configuration is saved when a change is pending, the response is written,
\* and then the connector sends the quit signal to the event loop when
\* quitAfterResponding was returned.
Respond(request, out) ==
    /\ \E denied \in {out.why \in {"missing-target", "bad-api-key", "panic"}} :
       \E save \in {~denied /\ ~out.A.X /\ out.A.U} :
            /\ Monitors' = out.A.M
            /\ paramHeap' = out.A.H
            /\ Responders' = out.A.R
            /\ crashed' = out.A.X
            /\ unsavedChanges' = IF save THEN FALSE ELSE out.A.U
            /\ saved' = IF save THEN ConfigOf(out.A) ELSE saved
            /\ lastAPI' = [done |-> TRUE, key |-> request.APIKey,
                           action |-> request.Action,
                           type |-> request.Type, target |-> request.TargetName,
                           success |-> ~out.err, why |-> out.why,
                           latched |-> out.A.R # Responders,
                           keys |-> ResponseKeys(request, out),
                           commands |-> request.CommandList,
                           from |-> IF GetResponderByName(
                                          AgentState(Monitors, paramHeap, Responders,
                                                     unsavedChanges),
                                          request.TargetName)
                                    THEN Responders[request.TargetName].HAProxyCommands
                                    ELSE <<>>]
            /\ haltAt' = IF denied THEN haltAt
                         ELSE IF IsForceHalt(request) /\ ~out.err
                         THEN [set |-> TRUE, t |-> now,
                               c |-> out.A.R[Polled].CommandInterval]
                         ELSE NoHalt
            /\ introduced' = IF denied THEN introduced
                             ELSE [n \in RespNames |-> [f \in TrackedFields |->
                                      IntroducedBy(out, request, n, f)]]
    /\ mainLoop' = IF QuitAfterResponding(request) /\ mainLoop = "waiting"
                   THEN "quitting" ELSE mainLoop
    /\ UNCHANGED <<now, result, req, wire>>
    /\ NotReply

\* One API request from validation to response, its handler in one step.
ProcessAPIRequest(request) ==
    /\ ~crashed
    /\ \E order \in OrdersFor(request) :
         \E cv \in (IF request.Action = "get" /\ request.Type = "feedback"
                     THEN NaNToInt ELSE {0}) :
         \E out \in StartOutcomes(APIResult(request, order, cv), request) :
            Respond(request, out)
    /\ UNCHANGED sideVars

\* ------------------------------------- source operations, lock by lock
\* AddFeedbackSource, EditFeedbackSource and DeleteFeedbackSource hold the
\* responder's mutex while they change the source map, release it, and call
\* initialiseSources, which takes it again; HandleFeedback can run between
\* the two.  This is the first critical section of the three: err when the
\* method returns from it, else the responder as the section leaves it.
LockedSources(action, fbr, name, significance, maxValue, threshold, mons) ==
    LET refused == [err |-> TRUE, fbr |-> fbr]
        pick(opt, default) == IF opt # {} THEN CHOOSE v \in opt : TRUE ELSE default
    IN IF name \notin MonNames THEN refused
       ELSE IF action = "add"
       THEN IF mons[name] = Nil \/ fbr.FeedbackSources[name] # Nil THEN refused
            ELSE [err |-> FALSE,
                  fbr |-> [fbr EXCEPT !.FeedbackSources[name] =
                              NewSource(mons[name].obj, pick(significance, 10),
                                        pick(maxValue, MetricDefaultMax),
                                        pick(threshold, 0))]]
       ELSE IF fbr.FeedbackSources[name] = Nil THEN refused
       ELSE IF action = "edit"
       THEN [err |-> FALSE,
             fbr |-> [fbr EXCEPT !.FeedbackSources[name] =
                         [@ EXCEPT !.Significance = pick(significance, @),
                                   !.MaxValue = pick(maxValue, @),
                                   !.Threshold = pick(threshold, @)]]]
       ELSE [err |-> FALSE, fbr |-> [fbr EXCEPT !.FeedbackSources[name] = Nil]]

\* A source request for the polled responder enters its method and leaves
\* the first critical section (a request the method refuses there returns at
\* once: that is ProcessAPIRequest).
SourceLocked(request) ==
    /\ ~crashed /\ edit.pc = "idle"
    /\ ValidateAPIRequest(request) = ""
    /\ request.Type = "source" /\ request.TargetName = Polled
    /\ request.Action \in {"add", "edit", "delete"}
    /\ Responders[Polled] # Nil /\ Opt(request.SourceMonitorName)
    /\ \E l \in {LockedSources(request.Action, Responders[Polled],
                                Val(request.SourceMonitorName),
                                request.SourceSignificance, request.SourceMaxValue,
                                request.ThresholdScore, Monitors)} :
          /\ ~l.err
          /\ Responders' = [Responders EXCEPT ![Polled] = l.fbr]
          /\ edit' = [pc |-> "locked", request |-> request,
                      unedited |-> Responders[Polled].FeedbackSources[
                                      Val(request.SourceMonitorName)],
                      err |-> FALSE]
    /\ UNCHANGED <<now, Monitors, paramHeap, unsavedChanges, saved, crashed, result,
                   req, mainLoop, wire, sysmon, stats, svc, apiServer>>
    /\ NotAPI /\ NotReply

\* initialiseSources, the second critical section.
SourceInitialised(order) ==
    /\ ~crashed /\ edit.pc = "locked"
    /\ Responders[Polled] # Nil
    /\ \E s \in {initialiseSources(Responders[Polled], Monitors, order)} :
          /\ Responders' = [Responders EXCEPT ![Polled] = s.fbr]
          /\ edit' = [edit EXCEPT !.pc = "initialised", !.err = s.err]
    /\ UNCHANGED <<now, Monitors, paramHeap, unsavedChanges, saved, crashed, result,
                   req, mainLoop, wire, sysmon, stats, svc, apiServer>>
    /\ NotAPI /\ NotReply

\* The rest of the method and of the request: after an error the added
\* source is taken out of the map or the edited one put back, neither under
\* the mutex; APIHandleSourceRequest marks the configuration changed and
\* ProcessAPIRequest saves it and responds.
SourceReturned ==
    /\ ~crashed /\ edit.pc = "initialised"
    /\ Responders[Polled] # Nil
    /\ LET name == Val(edit.request.SourceMonitorName)
           fbr == IF edit.err /\ edit.request.Action = "add"
                  THEN [Responders[Polled] EXCEPT !.FeedbackSources[name] = Nil]
                  ELSE IF edit.err /\ edit.request.Action = "edit"
                  THEN [Responders[Polled] EXCEPT
                           !.FeedbackSources[name] = edit.unedited]
                  ELSE Responders[Polled]
           A == [AgentState(Monitors, paramHeap, Responders, unsavedChanges)
                    EXCEPT !.R[Polled] = fbr, !.U = TRUE]
       IN Respond(edit.request, Outcome(A, edit.err))
    /\ edit' = NoEdit
    /\ UNCHANGED <<sysmon, stats, svc, apiServer>>

\* ---------------------------------------------------------- specifications
Req(action, type, target) == BaseRequest(AgentAPIKey, action, type, target)

\* The latch: feedback requests interleaved with the online-state commands.
LatchRequests ==
    {Req("force", "halt", Polled), Req("force", "drain", Polled),
     Req("force", "online", Polled), Req("send", "offline", "")}

InitLatch == InitWith(<<"up", "down">>, {1}, {"none", "any"}, {50}, BOOLEAN, {0})

NextLatch ==
    \/ Tick
    \/ \E v \in {0, 100} : Sample("cpu", v)
    \/ \E c \in Clients : HFStart(c)
    \/ \E c \in Clients : HFCheck(c)
    \/ \E c \in Clients : HFRelatch(c)
    \/ \E c \in Clients : HFReply(c)
    \/ \E r \in LatchRequests : ProcessAPIRequest(r)

SpecLatch == InitLatch /\ [][NextLatch]_vars

\* Sources, weights and thresholds.
SourceReq(action, mon, sig, max, thr) ==
    [Req(action, "source", Polled) EXCEPT
        !.SourceMonitorName = {mon}, !.SourceSignificance = sig,
        !.SourceMaxValue = max, !.ThresholdScore = thr]

SourceRequests ==
    {[Req("add", "monitor", "ram") EXCEPT !.MetricType = {"ram"}],
     SourceReq("add", "ram", {}, {}, {}),
     SourceReq("add", "ram", {0}, {}, {50}),
     SourceReq("add", "ram", {11}, {}, {}),
     SourceReq("edit", "cpu", {0}, {}, {}),
     SourceReq("edit", "cpu", {10}, {}, {50}),
     SourceReq("edit", "cpu", {}, {}, {101}),
     SourceReq("edit", "cpu", {}, {0}, {}),
     SourceReq("delete", "ram", {}, {}, {})}

SampleValues == {1, 50}

InitSources ==
    InitWith(<<"default">>, {1}, {"none", "any", "metric", "overall"}, {0, 50},
             {FALSE}, {0})

\* These claims are about one request at a time: one client polls.
FirstClient == CHOOSE c \in Clients : \A d \in Clients : c <= d

NextSources ==
    \/ \E m \in MonNames, v \in SampleValues : Sample(m, v)
    \/ HFStart(FirstClient)
    \/ HFCheck(FirstClient)
    \/ HFRelatch(FirstClient)
    \/ HFReply(FirstClient)
    \/ \E r \in SourceRequests : ProcessAPIRequest(r)

SpecSources == InitSources /\ [][NextSources]_vars

\* The administration API, with and without the agent's key.
AdminRequests ==
    {[Req("edit", "monitor", "cpu") EXCEPT !.MetricInterval = {900}],
     [Req("edit", "monitor", "cpu") EXCEPT
         !.MetricType = {"disk-usage"},
         !.MetricParams = {[EmptyParams EXCEPT !["sampling-ms"] = "900"]}],
     [Req("edit", "responder", Polled) EXCEPT !.ListenIPAddress = {"nowhere"}],
     Req("delete", "responder", Polled),
     [Req("set", "commands", Polled) EXCEPT
         !.CommandList = {<<"drain">>}, !.CommandInterval = {0}],
     [Req("set", "threshold", Polled) EXCEPT
         !.ThresholdScore = {70}, !.ThresholdMode = {"sometimes"}],
     Req("force", "save-config", ""),
     Req("get", "config", ""), Req("start", "responder", ""),
     [Req("set", "commands", Polled) EXCEPT !.CommandList = {<<"none">>}],
     [Req("set", "commands", Polled) EXCEPT !.CommandList = {<<"default">>}],
     [Req("set", "commands", Polled) EXCEPT !.CommandList = {<<"down", "fail">>}]}

APIKeys == {AgentAPIKey, "", "guess"}

InitAPI == InitWith(<<"default">>, {DefaultCommandInterval}, {"none"}, {0}, {FALSE}, {0})

NextAPI ==
    \/ \E v \in {0, 100} : Sample("cpu", v)
    \/ \E r \in AdminRequests, k \in APIKeys :
          ProcessAPIRequest([r EXCEPT !.APIKey = k])

SpecAPI == InitAPI /\ [][NextAPI]_vars

\* The life cycle: services started, stopped, replaced and restarted.
\* Connector.Listen of a responder that run() has put in the running state:
\* the bind fails when a listening responder holds the address, and run()
\* then leaves the running state.
AddressTaken(n) == TakenIn(Responders, n)

Listen(n) ==
    /\ ~crashed
    /\ Responders[n] # Nil /\ Responders[n].runState /\ ~Responders[n].listening
    /\ Responders' = [Responders EXCEPT ![n] =
                         IF AddressTaken(n) THEN [@ EXCEPT !.runState = FALSE]
                         ELSE [@ EXCEPT !.listening = TRUE]]
    /\ UNCHANGED <<now, Monitors, paramHeap, unsavedChanges, saved, crashed,
                   result, req, auxVars>>
    /\ NotAPI /\ NotReply

\* EventHandleLoop on the restart signal: RestartAllServices, and on its
\* error the loop is left; agentMain then stops every service and returns.
SignalRestart ==
    /\ ~crashed /\ mainLoop = "waiting"
    /\ \E out \in {RestartAllServices(
                      AgentState(Monitors, paramHeap, Responders, unsavedChanges),
                      now)} :
          /\ mainLoop' = IF out.err THEN "exited" ELSE "waiting"
          /\ Monitors' = IF out.err
                         THEN [n \in MonNames |->
                                 IF out.A.M[n] = Nil THEN Nil
                                 ELSE StopMonitor(out.A.M[n]).mon]
                         ELSE out.A.M
          /\ Responders' = IF out.err
                           THEN [n \in RespNames |->
                                   IF out.A.R[n] = Nil THEN Nil
                                   ELSE StopResponder(out.A.R[n]).fbr]
                           ELSE out.A.R
    /\ UNCHANGED <<now, paramHeap, unsavedChanges, saved, crashed, result, req, wire,
                   sideVars>>
    /\ NotAPI /\ NotReply

\* EventHandleLoop on the quit signal: the loop is left, agentMain stops every
\* service and returns.
SignalQuit ==
    /\ ~crashed /\ mainLoop = "quitting"
    /\ mainLoop' = "quit"
    /\ Monitors' = [n \in MonNames |->
                      IF Monitors[n] = Nil THEN Nil ELSE StopMonitor(Monitors[n]).mon]
    /\ Responders' = [n \in RespNames |->
                        IF Responders[n] = Nil THEN Nil
                        ELSE StopResponder(Responders[n]).fbr]
    /\ UNCHANGED <<now, paramHeap, unsavedChanges, saved, crashed, result, req, wire,
                   sideVars>>
    /\ NotAPI /\ NotReply

With(r, field, value) == [r EXCEPT ![field] = {value}]

LifeRequests ==
    {Req("stop", "responder", Polled), Req("start", "responder", Polled),
     Req("restart", "responder", Polled), Req("restart", "agent", "all"),
     Req("stop", "agent", "all"), Req("stop", "agent", ""),
     Req("restart", "agent", ""), Req("agent", "stop", ""),
     Req("force", "halt", Polled),
     With(Req("edit", "responder", Polled), "ThresholdScore", 60),
     With(With(Req("edit", "responder", Polled), "ListenIPAddress", "127.0.0.1"),
          "ListenPort", 3334),
     Req("delete", "responder", ResponderNameAPI),
     With(Req("edit", "responder", ResponderNameAPI), "ProtocolName", "tcp"),
     With(Req("edit", "responder", ResponderNameAPI), "FeedbackSources",
          [NoSources EXCEPT !["cpu"] =
              [Significance |-> 10, MaxValue |-> 100, Threshold |-> 0]]),
     With(Req("add", "source", ResponderNameAPI), "SourceMonitorName", "cpu"),
     With(Req("set", "threshold", ResponderNameAPI), "ThresholdMode", "any"),
     Req("delete", "responder", Polled),
     With(With(With(With(Req("add", "responder", Polled), "ProtocolName", "tcp"),
                    "ListenIPAddress", "127.0.0.1"), "ListenPort", 3334),
          "FeedbackSources", NoSources),
     Req("delete", "monitor", "cpu")}

InitLife == InitWith(<<"default">>, {1}, {"none"}, {0}, {FALSE}, {0})

NextLife ==
    \/ mainLoop = "waiting" /\ Tick
    \/ \E n \in RespNames : mainLoop = "waiting" /\ Listen(n)
    \/ SignalRestart
    \/ SignalQuit
    \/ \E r \in LifeRequests : mainLoop = "waiting" /\ ProcessAPIRequest(r)

SpecLife == InitLife /\ [][NextLife]_vars

\* The wire format: replies of a responder configured with the command list
\* `none` or `up down`, with and without a forced latch, and with a source
\* whose max-value a request sets to 0.
WireRequests ==
    {Req("force", "drain", Polled), Req("send", "offline", Polled),
     Req("send", "online", Polled),
     SourceReq("edit", "cpu", {}, {0}, {}),
     SourceReq("delete", "cpu", {}, {}, {}),
     SourceReq("add", "cpu", {}, {0}, {}),
     Req("get", "feedback", Polled), Req("get", "sources", Polled),
     Req("get", "config", "")}

InitWire ==
    \/ InitWith(<<"none">>, {1}, {"none", "any"}, {50}, {FALSE}, {0})
    \/ InitWith(<<"up", "down">>, {1}, {"none", "any"}, {50}, {FALSE}, {0})

NextWire ==
    \/ Tick
    \/ \E v \in {0, 100} : Sample("cpu", v)
    \/ HFStart(FirstClient)
    \/ HFCheck(FirstClient)
    \/ HFRelatch(FirstClient)
    \/ HFReply(FirstClient)
    \/ \E r \in WireRequests : ProcessAPIRequest(r)

SpecWire == InitWire /\ [][NextWire]_vars

\* The serialisation of a command mask: every mask that the command bits
\* make (a mask is stored with the flags masked off), in both polarities.
Serialise(mask, online) ==
    /\ wire' = [done |-> TRUE, mask |-> mask, online |-> online,
                tokens |-> GenerateCommandString(online, mask)]
    /\ UNCHANGED <<now, agentVars, result, req, reply, lastAPI, histVars, mainLoop,
                   sideVars>>

InitMask == InitAPI

NextMask == \E mask \in 0..MaxMask, online \in BOOLEAN : Serialise(mask, online)

SpecMask == InitMask /\ [][NextMask]_vars

\* A monitor's worker, the samples it takes and the calls of Start and Stop.
InitMonitor == InitAPI

NextMonitor ==
    \/ MonitorStart
    \/ \E ok \in BOOLEAN : MonitorSample(ok)
    \/ \E c \in Callers : MonitorStop(c)
    \/ \E c \in Callers : MonitorSignal(c)
    \/ \E c \in Callers : MonitorStopped(c)

SpecMonitor == InitMonitor /\ [][NextMonitor]_vars

InitStats == InitAPI

NextStats == \E value \in ObservedValues : Observe(value)

SpecStats == InitStats /\ [][NextStats]_vars

InitResponder == InitAPI

NextResponder ==
    \/ \E c \in Callers : ResponderStart(c)
    \/ \E c \in Callers : ResponderAnnounce(c)
    \/ \E ok \in BOOLEAN : ResponderBind(ok)
    \/ ResponderAccept
    \/ ResponderAcceptError
    \/ ResponderRunExit
    \/ \E c \in Callers : ResponderStopped(c)
    \/ \E c \in Callers : ResponderStartReturn(c)
    \/ \E c \in Callers : ResponderStop(c)
    \/ \E c \in Callers : ResponderClose(c)
    \/ \E c \in Callers : ResponderReceive(c)

SpecResponder == InitResponder /\ [][NextResponder]_vars

\* The goroutines of the responder are scheduled fairly: a run() or a caller
\* that can take its next step takes it. Whether and when Start and Stop are
\* called, and whether a client connects, is left open.
ResponderFairness ==
    /\ WF_vars(\E ok \in BOOLEAN : ResponderBind(ok))
    /\ WF_vars(ResponderAcceptError)
    /\ WF_vars(ResponderRunExit)
    /\ \A c \in Callers :
          /\ WF_vars(ResponderAnnounce(c))
          /\ WF_vars(ResponderStopped(c))
          /\ WF_vars(ResponderStartReturn(c))
          /\ WF_vars(ResponderClose(c))
          /\ WF_vars(ResponderReceive(c))

SpecResponderFair == SpecResponder /\ ResponderFairness

\* The registry: monitors added, stopped, started and deleted, and the polled
\* responder edited with threshold modes the agent knows and does not know.
RegistryRequests ==
    {With(Req("add", "monitor", "ram"), "MetricType", "ram"),
     Req("stop", "monitor", "ram"), Req("start", "monitor", "ram"),
     Req("delete", "monitor", "ram"), Req("delete", "monitor", "cpu"),
     With(Req("edit", "responder", Polled), "ThresholdMode", "any"),
     With(Req("edit", "responder", Polled), "ThresholdMode", "sometimes"),
     SourceReq("edit", "cpu", {10}, {}, {50}),
     Req("stop", "responder", Polled), Req("start", "responder", Polled)}

InitRegistry == InitAPI

NextRegistry ==
    \/ \E m \in MonNames, v \in {0, 100} : Sample(m, v)
    \/ HFStart(FirstClient)
    \/ HFCheck(FirstClient)
    \/ HFRelatch(FirstClient)
    \/ HFReply(FirstClient)
    \/ \E r \in RegistryRequests : ProcessAPIRequest(r)

SpecRegistry == InitRegistry /\ [][NextRegistry]_vars

\* Source operations on the polled responder taken lock by lock, with the
\* feedback requests of a client in between.
InterleavedRequests ==
    {SourceReq("add", "ram", {}, {}, {}), SourceReq("add", "ram", {11}, {}, {}),
     SourceReq("edit", "cpu", {5}, {}, {}), SourceReq("delete", "ram", {}, {}, {})}

InitInterleaved == InitWith(<<"default">>, {1}, {"none", "any"}, {50}, {FALSE}, {0})

NextInterleaved ==
    \/ \E m \in MonNames, v \in SampleValues : Sample(m, v)
    \/ HFStart(FirstClient)
    \/ HFCheck(FirstClient)
    \/ HFRelatch(FirstClient)
    \/ HFReply(FirstClient)
    \/ ProcessAPIRequest(With(Req("add", "monitor", "ram"), "MetricType", "ram"))
    \/ \E r \in InterleavedRequests : SourceLocked(r)
    \/ \E order \in MapOrders : SourceInitialised(order)
    \/ SourceReturned

SpecInterleaved == InitInterleaved /\ [][NextInterleaved]_vars

\* The responder `api` serving requests, some of which stop it.
InitServer == InitAPI

NextServer ==
    \/ \E c \in Connections, kind \in RequestKinds : HTTPRequest(c, kind)
    \/ RestartSignal
    \/ \E s \in Stoppers : APIActionTree(s)
    \/ ListenReturns
    \/ \E s \in Stoppers : ShutdownReturns(s)
    \/ APIRunExit
    \/ \E s \in Stoppers : StopReturned(s)
    \/ \E s \in Stoppers : StartReturned(s)
    \/ \E s \in Stoppers : HTTPResponse(s)

SpecServer == InitServer /\ [][NextServer]_vars

\* Every task that can take a step eventually takes it; requests and signals
\* arrive or do not.
ServerFairness ==
    /\ WF_vars(ListenReturns)
    /\ WF_vars(APIRunExit)
    /\ \A s \in Stoppers :
          /\ WF_vars(APIActionTree(s))
          /\ WF_vars(ShutdownReturns(s))
          /\ WF_vars(StopReturned(s))
          /\ WF_vars(StartReturned(s))
          /\ WF_vars(HTTPResponse(s))

SpecServerFair == SpecServer /\ ServerFairness

\* ------------------------------------------------------------------ claims
\* C1: after a `force halt` has returned, every reply the responder builds
\* during the following command-interval seconds begins with `maint`,
\* whatever requests were in progress when it was issued.
C1_HaltReplyBeginsWithMaint ==
    (reply.built /\ reply.inHalt) =>
        (Len(reply.tokens) >= 1 /\ reply.tokens[1] = "maint")

\* A reply built inside the interval of a `force halt`.
C1_Witness == reply.built /\ reply.inHalt

\* The latch of a responder.
LatchOf(fbr) ==
    [state |-> fbr.onlineState, expiry |-> fbr.stateExpiry,
     force |-> fbr.forceCommandState, override |-> fbr.overrideMask]

\* The threshold state the request of client c computed in this step.
ComputedState(c, rq, rp) ==
    IF rq[c].pc = "relatch" THEN rq[c].thresholdState ELSE rp.thresholdState

RelatchCondition(fbr, computed, timestamp) ==
    /\ fbr.ThresholdModeName # "none"
    /\ computed # LatchOf(fbr).state
    /\ \/ ~LatchOf(fbr).force
       \/ /\ timestamp > LatchOf(fbr).expiry
          /\ (LatchOf(fbr).state \/ fbr.EnableOfflineInterval)

\* C2 as stated: a feedback request changes the latch exactly when the
\* threshold mode is not none, the computed state differs from the latched
\* state and the latch is not forced or (has expired and is online or the
\* offline interval is on); the condition holds of the latch the request
\* reads under the mutex and of the latch its write replaces; the write sets
\* (computed state, now + command-interval, not forced, no override); no
\* other step of the request changes the latch.
C2_RelatchIffCondition ==
    [][\A c \in Clients :
         /\ (req[c].pc = "started" /\ req'[c].pc # "started") =>
               /\ LatchOf(Responders'[Polled]) = LatchOf(Responders[Polled])
               /\ (req'[c].pc = "relatch") <=>
                     RelatchCondition(Responders[Polled],
                                      ComputedState(c, req', reply'),
                                      req[c].timestamp)
         /\ (req[c].pc = "relatch" /\ req'[c].pc # "relatch") =>
               /\ RelatchCondition(Responders[Polled], req[c].thresholdState,
                                   req[c].timestamp)
               /\ LatchOf(Responders'[Polled]) =
                  [state |-> req[c].thresholdState,
                   expiry |-> now + Responders[Polled].CommandInterval,
                   force |-> FALSE, override |-> HAPEnumNone]
         /\ (req[c].pc = "relatched" /\ req'[c].pc # "relatched") =>
               LatchOf(Responders'[Polled]) = LatchOf(Responders[Polled])
      ]_vars

\* A request has rewritten a latch and has not replied yet.
C2_Witness ==
    \E c \in Clients :
        /\ req[c].pc = "relatched"
        /\ LatchOf(Responders[Polled]).state = req[c].thresholdState
        /\ ~LatchOf(Responders[Polled]).force

\* C10 as stated: a reply built after the expiry of a forced latch with an
\* override mask does not carry the override tokens.
C10_NoOverrideAfterExpiry ==
    (reply.built /\ reply.force /\ reply.override # HAPEnumNone /\ reply.late) =>
        reply.tokens # GenerateCommandString(reply.online, reply.override)

ForcedLatch(type, fbr, t) ==
    [state |-> type = "online", expiry |-> t + fbr.CommandInterval, force |-> TRUE,
     override |-> CASE type = "online" -> BitAnd(HAPDefaultOnline, HAPMaskCommand)
                    [] type = "drain" -> BitAnd(HAPEnumDrain, HAPMaskCommand)
                    [] OTHER -> BitAnd(HAPEnumMaintenance, HAPMaskCommand)]

\* C10: `force halt`, `force drain` and `force online` set the latch to
\* (state, now + command-interval, forced, override mask); a reply built from
\* a forced latch with an override mask carries exactly the override tokens
\* until the expiry and, for an offline latch with the offline interval
\* off, after it as well; otherwise it carries no command token.
C10_OverrideUntilExpiryOrOffline ==
    [][/\ (lastAPI'.done /\ lastAPI'.success /\ lastAPI'.action = "force"
           /\ lastAPI'.type \in {"halt", "maint", "drain", "online"}) =>
              LatchOf(Responders'[Polled]) =
                 ForcedLatch(lastAPI'.type, Responders[Polled], now)
       /\ (reply'.built /\ reply'.force /\ reply'.override # HAPEnumNone) =>
              reply'.tokens =
                 IF ~reply'.late
                    \/ (~Responders[Polled].EnableOfflineInterval /\ ~reply'.online)
                 THEN GenerateCommandString(reply'.online, reply'.override)
                 ELSE <<>>
      ]_vars

\* A reply built after the expiry of a `force halt` that still says maint.
C10_Witness ==
    /\ reply.built /\ reply.force /\ reply.late
    /\ reply.override = BitAnd(HAPEnumMaintenance, HAPMaskCommand)
    /\ reply.tokens = <<"maint">>

\* The step in which the request of client c computes its threshold state.
IsCheckStep(c) == req[c].pc = "started" /\ req'[c].pc # "started"

\* The availability the request of client c computed in this step.
ComputedAvailability(c, rq, rp) ==
    IF rq[c].pc = "relatch" THEN rq[c].availability ELSE rp.avail

\* C3 as stated: offline iff a source's load reaches that source's own
\* non-zero threshold (modes any, metric) or the overall load reaches the
\* non-zero global threshold (modes any, overall); checked where every
\* relative significance is a number.
StatedOffline(fbr, load, overall) ==
    \/ /\ fbr.ThresholdModeName \in {"any", "metric"}
       /\ \E k \in DOMAIN load :
             /\ fbr.FeedbackSources[k].Threshold # 0
             /\ load[k] >= fbr.FeedbackSources[k].Threshold
    \/ /\ fbr.ThresholdModeName \in {"any", "overall"}
       /\ fbr.ThresholdScore # 0
       /\ overall >= fbr.ThresholdScore

\* The weights of the responder's sources are numbers.
WeightsDefined(fbr) ==
    \A k \in SourceNames(fbr) : fbr.FeedbackSources[k].RelDen # 0

C3_OfflineIffStatedThreshold ==
    [][\A c \in Clients : (IsCheckStep(c) /\ WeightsDefined(Responders[Polled])) =>
          \E cv \in NaNToInt :
             LET a == GetAvailabilityState(Responders[Polled], result, cv) IN
             /\ ComputedAvailability(c, req', reply') = a.availability
             /\ ComputedState(c, req', reply') =
                   ~StatedOffline(Responders[Polled],
                                  Loads(Responders[Polled], result, cv),
                                  OverallLoad(Responders[Polled], result, cv))
      ]_vars

\* C3: offline iff a positive applicable threshold is equalled or exceeded,
\* the applicable comparisons being each source's load with its own
\* threshold (modes any, metric), each source's load with the global
\* threshold (mode any) and the overall load with the global threshold
\* (modes any, overall); a threshold of 0 or below is never met.
AmendedOffline(fbr, load, overall) ==
    \/ /\ fbr.ThresholdModeName \in {"any", "metric"}
       /\ \E k \in DOMAIN load :
             /\ fbr.FeedbackSources[k].Threshold > 0
             /\ load[k] >= fbr.FeedbackSources[k].Threshold
    \/ /\ fbr.ThresholdModeName = "any"
       /\ fbr.ThresholdScore > 0
       /\ \E k \in DOMAIN load : load[k] >= fbr.ThresholdScore
    \/ /\ fbr.ThresholdModeName \in {"any", "overall"}
       /\ fbr.ThresholdScore > 0
       /\ overall >= fbr.ThresholdScore

C3_OfflineIffPositiveThreshold ==
    [][\A c \in Clients : IsCheckStep(c) =>
          \E cv \in NaNToInt :
             LET a == GetAvailabilityState(Responders[Polled], result, cv) IN
             /\ ComputedAvailability(c, req', reply') = a.availability
             /\ ComputedState(c, req', reply') =
                   ~AmendedOffline(Responders[Polled],
                                   Loads(Responders[Polled], result, cv),
                                   OverallLoad(Responders[Polled], result, cv))
      ]_vars

\* A request found the responder offline in mode any because one source's
\* load reached the global threshold, nothing else being met.
C3_Witness ==
    \E c \in Clients :
        /\ req[c].pc = "relatch" /\ ~req[c].thresholdState
        /\ Responders[Polled].ThresholdModeName = "any"
        /\ Responders[Polled].ThresholdScore > 0
        /\ req[c].availability \in 0..100
        /\ 100 - req[c].availability < Responders[Polled].ThresholdScore
        /\ \A k \in SourceNames(Responders[Polled]) :
              Responders[Polled].FeedbackSources[k].Threshold = 0

\* The sum of the significances, and of load x significance, of the sources.
TotalSignificance(fbr) ==
    SumOver(SourceNames(fbr),
            [k \in SourceNames(fbr) |-> fbr.FeedbackSources[k].Significance])

WeightedLoad(fbr, load) ==
    SumOver(DOMAIN load, [k \in DOMAIN load |-> load[k] * fbr.FeedbackSources[k].Significance])

\* C4: the availability a request computes is within 0..100 and is 100
\* minus the sum over the sources of load x relative significance (to the
\* integer below or above that sum); checked where the sum of the
\* significances is positive, so that every relative significance is a number.
C4_AvailabilityIsHundredMinusOverall ==
    [][\A c \in Clients :
          (IsCheckStep(c) /\ TotalSignificance(Responders[Polled]) > 0) =>
             \E cv \in NaNToInt :
                LET fbr == Responders[Polled]
                    avail == ComputedAvailability(c, req', reply')
                    exact == WeightedLoad(fbr, Loads(fbr, result, cv))
                    total == TotalSignificance(fbr)
                IN /\ avail \in 0..100
                   /\ (100 - avail) * total > exact - total
                   /\ (100 - avail) * total < exact + total
      ]_vars

\* A request computed an availability from two weighted sources.
C4_Witness ==
    /\ reply.built
    /\ Cardinality(SourceNames(Responders[Polled])) = 2
    /\ TotalSignificance(Responders[Polled]) > 0

\* The relative significances of a responder's sources sum to 1, each being
\* significance over the sum of the significances.
WeightsSumToOne(fbr) ==
    /\ \A k \in SourceNames(fbr) :
          /\ fbr.FeedbackSources[k].RelDen = TotalSignificance(fbr)
          /\ fbr.FeedbackSources[k].RelNum = fbr.FeedbackSources[k].Significance
    /\ TotalSignificance(fbr) # 0

\* C5: after each completed add, edit or delete of a source, accepted or
\* rejected, the relative significances of a responder that has a source
\* sum to 1.
C5_WeightsSumToOne ==
    [][(lastAPI'.done /\ lastAPI'.type = "source"
        /\ lastAPI'.why \notin {"missing-target", "bad-api-key"}
        /\ SourceNames(Responders'[Polled]) # {}) =>
           WeightsSumToOne(Responders'[Polled])
      ]_vars

\* An accepted edit of a source has completed.
C5_Witness ==
    /\ lastAPI.done /\ lastAPI.type = "source" /\ lastAPI.action = "edit"
    /\ lastAPI.success
    /\ SourceNames(Responders[Polled]) # {}

\* C6 as stated: an `edit monitor` or `edit responder` that fails validation
\* leaves the live object as it was, its parameter map, its sources and its
\* run-state included.
C6_FailedEditLeavesLiveObject ==
    [][(lastAPI'.done /\ lastAPI'.action = "edit" /\ lastAPI'.why = "validation") =>
          /\ lastAPI'.type = "monitor" =>
                /\ Monitors'[lastAPI'.target] = Monitors[lastAPI'.target]
                /\ paramHeap'[Monitors[lastAPI'.target].Params] =
                      paramHeap[Monitors[lastAPI'.target].Params]
          /\ lastAPI'.type = "responder" =>
                Responders'[lastAPI'.target] = Responders[lastAPI'.target]
      ]_vars

\* An `edit monitor` has failed validation.
C6_Witness ==
    /\ lastAPI.done /\ lastAPI.action = "edit" /\ lastAPI.type = "monitor"
    /\ lastAPI.why = "validation"

\* C7: a request whose api-key is missing or is not the agent's key changes
\* neither the monitors, their parameter maps, the responders with their
\* sources, latches and run-states, the unsaved-changes flag nor the file.
C7_BadKeyChangesNothing ==
    [][(lastAPI'.done /\ lastAPI'.key # AgentAPIKey) => UNCHANGED agentVars]_vars

\* A `delete responder` without the key was answered and the responder lives.
C7_Witness ==
    /\ lastAPI.done /\ lastAPI.key # AgentAPIKey
    /\ lastAPI.action = "delete" /\ lastAPI.type = "responder"
    /\ ~lastAPI.success
    /\ Responders[Polled] # Nil

\* C8 as stated: a request that succeeds and changes the configuration has
\* the file written at its end, holding the changed configuration.
C8_MutationIsSaved ==
    [][(lastAPI'.done /\ lastAPI'.success
        /\ ConfigOf(AgentState(Monitors', paramHeap', Responders', FALSE))
              # ConfigOf(AgentState(Monitors, paramHeap, Responders, FALSE))) =>
          saved' = ConfigOf(AgentState(Monitors', paramHeap', Responders', FALSE))
      ]_vars

\* A `delete responder` has succeeded.
C8_Witness ==
    /\ lastAPI.done /\ lastAPI.success
    /\ lastAPI.action = "delete" /\ lastAPI.type = "responder"
    /\ Responders[Polled] = Nil

\* C9 as stated: the file never holds a field value that a request which
\* failed with a configuration or validation error introduced.
C9_NoRejectedValuePersisted ==
    \A n \in RespNames, f \in TrackedFields :
        saved.responders[n] # Nil => saved.responders[n][f] \notin introduced[n][f]

\* A rejected request has left a value in memory that the file does not hold.
C9_Witness ==
    \E n \in RespNames, f \in TrackedFields :
        /\ introduced[n][f] # {}
        /\ saved.responders[n] # Nil
        /\ saved.responders[n][f] \notin introduced[n][f]

\* C15 as stated: no responder holds a feedback source whose max-value is 0,
\* an add or edit of a source that gives max-value 0 being rejected.
C15_NoZeroMaxValue ==
    \A n \in RespNames, k \in MonNames :
        (Responders[n] # Nil /\ Responders[n].FeedbackSources[k] # Nil) =>
            Responders[n].FeedbackSources[k].MaxValue # 0

\* An add of a source was accepted and the source has max-value 0.
C15_Witness ==
    /\ lastAPI.done /\ lastAPI.type = "source" /\ lastAPI.action = "add"
    /\ lastAPI.success
    /\ Responders[Polled].FeedbackSources["cpu"] # Nil
    /\ Responders[Polled].FeedbackSources["cpu"].MaxValue = 0

\* C16: a `delete monitor` that names a monitor which is a feedback source of
\* any responder fails and leaves the agent's state as it was.
C16_DeleteUsedMonitorRefused ==
    [][(/\ lastAPI'.done /\ lastAPI'.action = "delete" /\ lastAPI'.type = "monitor"
        /\ lastAPI'.key = AgentAPIKey
        /\ lastAPI'.target \in MonNames
        /\ \E n \in RespNames :
              /\ Responders[n] # Nil
              /\ Responders[n].FeedbackSources[lastAPI'.target] # Nil) =>
           /\ ~lastAPI'.success
           /\ UNCHANGED agentVars
      ]_vars

\* A `delete monitor` of a monitor that a responder uses has been refused.
C16_Witness ==
    /\ lastAPI.done /\ lastAPI.action = "delete" /\ lastAPI.type = "monitor"
    /\ ~lastAPI.success
    /\ Monitors[lastAPI.target] # Nil
    /\ \E n \in RespNames :
          Responders[n] # Nil /\ Responders[n].FeedbackSources[lastAPI.target] # Nil

\* C17: a responder named `api` is in the responder map and its protocol is
\* HTTPS-API, whatever requests have been handled; a `delete responder` or an
\* `edit responder` addressed to `api` that was refused has left it so.
C17_APIResponderStays ==
    /\ Responders[ResponderNameAPI] # Nil
    /\ Responders[ResponderNameAPI].ProtocolName = ProtocolSecureAPI
    /\ (/\ lastAPI.done /\ lastAPI.action = "delete" /\ lastAPI.type = "responder"
        /\ lastAPI.target = ResponderNameAPI) => ~lastAPI.success

\* A `delete responder` addressed to `api` has been refused.
C17_Witness ==
    /\ lastAPI.done /\ lastAPI.action = "delete" /\ lastAPI.type = "responder"
    /\ lastAPI.target = ResponderNameAPI /\ ~lastAPI.success
    /\ Responders[ResponderNameAPI] # Nil

\* C18 as stated: no two responders in the responder map have the same
\* listen IP address and listen port.
C18_DistinctListenAddresses ==
    \A n \in RespNames, m \in RespNames :
        (/\ n # m /\ Responders[n] # Nil /\ Responders[m] # Nil
         /\ Responders[n].ListenIPAddress = Responders[m].ListenIPAddress) =>
            Responders[n].ListenPort # Responders[m].ListenPort

\* An accepted `edit responder` or `add responder` has given a responder the
\* address of another one.
C18_Witness ==
    /\ lastAPI.done /\ lastAPI.type = "responder" /\ lastAPI.success
    /\ lastAPI.action \in {"add", "edit"}
    /\ \E n \in RespNames, m \in RespNames :
          /\ n # m /\ Responders[n] # Nil /\ Responders[m] # Nil
          /\ Responders[n].ListenIPAddress = Responders[m].ListenIPAddress
          /\ Responders[n].ListenPort = Responders[m].ListenPort

\* C19 as stated: a responder whose protocol is HTTPS-API has no feedback
\* sources and the threshold mode it acts on is `none`.
C19_APIResponderHasNoSources ==
    \A n \in RespNames :
        (Responders[n] # Nil /\ Responders[n].ProtocolName = ProtocolSecureAPI) =>
            /\ SourceNames(Responders[n]) = {}
            /\ Responders[n].thresholdModeEnum = "none"

\* An accepted `add source` addressed to the API responder has given it a
\* feedback source.
C19_Witness ==
    /\ lastAPI.done /\ lastAPI.type = "source" /\ lastAPI.action = "add"
    /\ lastAPI.target = ResponderNameAPI /\ lastAPI.success
    /\ Responders[ResponderNameAPI].ProtocolName = ProtocolSecureAPI
    /\ SourceNames(Responders[ResponderNameAPI]) # {}

\* C20 as stated: the agent, its API listener started and waiting for signals,
\* does not leave its event loop on a restart signal, whether or not every
\* responder was running when the signal arrived ("exited" is the loop left
\* on the error of a restart; a requested shutdown ends in "quit").
C20_RestartReturnsToWaiting ==
    [][(/\ mainLoop = "waiting"
        /\ Responders[ResponderNameAPI] # Nil
        /\ Responders[ResponderNameAPI].listening) =>
           mainLoop' # "exited"
      ]_vars

\* The agent has left its event loop on a restart signal and stopped its
\* services.
C20_Witness ==
    /\ mainLoop = "exited"
    /\ Responders[ResponderNameAPI] # Nil
    /\ \A n \in RespNames : Responders[n] # Nil => ~Responders[n].runState

\* C21 as stated: an authenticated request to stop or to restart the agent
\* that names no target is accepted, and the stop makes the agent shut down
\* once its response has been written.
C21_AgentStopAccepted ==
    [][(/\ lastAPI'.done /\ lastAPI'.key = AgentAPIKey /\ lastAPI'.target = ""
        /\ \/ lastAPI'.action = "agent" /\ lastAPI'.type \in {"stop", "restart"}
           \/ lastAPI'.type = "agent" /\ lastAPI'.action \in {"stop", "restart"}) =>
           /\ lastAPI'.success
           /\ "stop" \in {lastAPI'.action, lastAPI'.type} => mainLoop' = "quitting"
      ]_vars

\* A stop of the agent that names no target has been refused, and the agent
\* keeps waiting for signals.
C21_Witness ==
    /\ lastAPI.done /\ lastAPI.key = AgentAPIKey /\ lastAPI.target = ""
    /\ lastAPI.action = "stop" /\ lastAPI.type = "agent"
    /\ ~lastAPI.success /\ mainLoop = "waiting"

\* C22 as stated: a `get config`, `get feedback` or `get sources` request
\* changes no monitor, responder, source or latch.
C22_GetIsReadOnly ==
    [][(/\ lastAPI'.done /\ lastAPI'.action = "get"
        /\ lastAPI'.type \in {"config", "feedback", "sources"}) =>
           UNCHANGED <<Monitors, paramHeap, Responders>>
      ]_vars

\* A `get feedback` has rewritten the latch of the responder it names.
C22_Witness ==
    /\ lastAPI.done /\ lastAPI.action = "get" /\ lastAPI.type = "feedback"
    /\ lastAPI.success /\ lastAPI.latched
    /\ Responders[Polled].stateExpiry = now + Responders[Polled].CommandInterval
    /\ ~Responders[Polled].forceCommandState

\* C23 as stated: no response carries the agent's API key, in the echoed
\* request or in the configuration of a `get config`.
C23_NoKeyInResponse ==
    lastAPI.done => AgentAPIKey \notin lastAPI.keys

\* A request with the agent's key has failed the validation for its missing
\* target, and its response echoes the request.
C23_Witness ==
    /\ lastAPI.done /\ lastAPI.key = AgentAPIKey
    /\ lastAPI.why = "missing-target"
    /\ lastAPI.keys = {AgentAPIKey}

\* C24 as stated: in a running monitor a failed sample logs an error exactly
\* when the sample before it (if any, since the worker started) did not fail,
\* and a successful sample logs the cleared message exactly when the sample
\* before it failed.
C24_OneErrorPerFailureRun ==
    [][/\ sysmon'.last = "fail" =>
             sysmon'.logged = IF sysmon.lastFailed THEN "none" ELSE "error"
       /\ sysmon'.last = "ok" =>
             sysmon'.logged = IF sysmon.lastFailed THEN "cleared" ELSE "none"
      ]_sysmon

\* The first failed sample after a Start that was refused on the running
\* monitor: nothing was logged.
C24_Witness ==
    /\ sysmon.runState /\ sysmon.last = "fail" /\ sysmon.logged = "none"
    /\ sysmon.LastError = "start" /\ ~sysmon.metricFailed

\* C25: a successful `set commands` with the list `none` leaves the mask
\* empty and the stored string `none`, and one with the list `default`,
\* after it or after any other configuration, leaves the mask holding up and
\* ready for online and drain for offline and the stored string `default`.
C25_NoneThenDefaultRestores ==
    [][(/\ lastAPI'.done /\ lastAPI'.success
        /\ lastAPI'.action = "set" /\ lastAPI'.type = "commands") =>
           LET fbr == Responders'[lastAPI'.target] IN
           /\ lastAPI'.commands = {<<"none">>} =>
                 /\ fbr.configCommandMask = HAPEnumNone
                 /\ fbr.HAProxyCommands = <<"none">>
           /\ lastAPI'.commands = {<<"default">>} =>
                 /\ fbr.configCommandMask =
                       BitAnd(BitOr(BitOr(HAPEnumUp, HAPEnumReady), HAPEnumDrain),
                              HAPMaskCommand)
                 /\ GenerateCommandString(TRUE, fbr.configCommandMask)
                       = <<"up", "ready">>
                 /\ GenerateCommandString(FALSE, fbr.configCommandMask) = <<"drain">>
                 /\ fbr.HAProxyCommands = <<"default">>
      ]_vars

\* A `set commands -command-list default` has succeeded on a responder whose
\* command list was `none`.
C25_Witness ==
    /\ lastAPI.done /\ lastAPI.success
    /\ lastAPI.action = "set" /\ lastAPI.type = "commands"
    /\ lastAPI.commands = {<<"default">>} /\ lastAPI.from = <<"none">>
    /\ Responders[lastAPI.target].HAProxyCommands = <<"default">>

\* C26: whenever the statistics model holds at least one observation, after
\* an observation and after a recentre alike, the square of its standard
\* deviation equals sum(x^2)/n - (sum(x)/n)^2 of its running sums and count.
C26_StdDevMatchesSums ==
    stats.model.XCount >= 1 =>
        stats.model.XStdDevSquared = SumsVariance(stats.model)

\* a recentred model whose sums give no spread while its deviation is kept
C26_Witness ==
    /\ stats.model.Recentred /\ stats.model.XCount = 1
    /\ SumsVariance(stats.model) = Rat(0, 1)
    /\ stats.model.XStdDevSquared # Rat(0, 1)

\* C27: every observation is added into the sum, the sum of squares and the
\* count, and becomes the last value within the minimum and the maximum, the
\* observation at which the count limit forces a recentre included (there
\* it is added to the recentred sums and count).
C27_EveryValueObserved ==
    [][stats'.seen = stats.seen + 1 =>
         LET value == stats'.value
             old == stats.model
             base == IF old.XCount + 1 > XCountLimit
                     THEN RecentreModel(old) ELSE old
             new == stats'.model
         IN  /\ new.XSum = RAdd(base.XSum, value)
             /\ new.XSquaredSum = RAdd(base.XSquaredSum, RMul(value, value))
             /\ new.XCount = base.XCount + 1
             /\ new.XLastValue = value
             /\ ~RLess(value, new.XMin) /\ ~RLess(new.XMax, value)
      ]_stats

\* the count limit was met by an observation other than the last one kept
C27_Witness ==
    /\ stats.model.Recentred /\ stats.seen = XCountLimit + 1
    /\ stats.value # stats.model.XLastValue
    /\ RLess(stats.model.XMax, stats.value)

\* C28: the Start of a responder returns success only once the listener is
\* bound and accepting, and returns an error whenever the listen of the run
\* it started fails.
C28_StartAfterListening ==
    \A g \in Runs :
        /\ svc.ret[g] # "ok-unbound"
        /\ g \in svc.bindFailed => svc.ret[g] \in {"none", "error"}

\* a Start that returned success for a run whose listen then failed
C28_Witness ==
    \E g \in Runs : svc.ret[g] = "ok-unbound" /\ g \in svc.bindFailed

\* The state the responder is left in by a Stop that has returned
StoppedResponder(s) ==
    /\ ~s.runState
    /\ s.worker = "none"
    /\ s.listener # "open"
    /\ s.statusChannel \notin s.sending

C30_StopReturns ==
    \A c \in Callers :
        (svc.call[c].pc = "stop-close") ~> (svc.call[c].pc = "idle")

\* a Stop that closed no listener waits for the stopped status of a run()
\* that has since bound its listener and accepts connections
C30_Witness ==
    \E c \in Callers :
        /\ svc.call[c].pc = "stop-wait" /\ svc.call[c].ch = svc.chan
        /\ svc.worker = "accept" /\ svc.listener = "open"
        /\ \A d \in Callers \ {c} : svc.call[d].pc = "idle"

\* C32: the threshold re-latch is atomic with the check that triggered it:
\* no re-latch changes a latch that a successful API `send` or `force` call
\* wrote after that check (here: in the step just before the re-latch).
C32_RelatchKeepsAPILatch ==
    [][\A c \in Clients :
          (/\ req[c].pc = "relatch" /\ req'[c].pc = "relatched"
           /\ lastAPI.done /\ lastAPI.success
           /\ lastAPI.action \in {"send", "force"} /\ lastAPI.latched)
              => LatchOf(Responders'[Polled]) = LatchOf(Responders[Polled])
      ]_vars

\* A re-latch has replaced the forced latch of a `force halt` still in force.
C32_Witness ==
    \E c \in Clients :
        /\ req[c].pc = "relatched"
        /\ haltAt.set /\ now < haltAt.t + haltAt.c
        /\ ~Responders[Polled].forceCommandState
        /\ Responders[Polled].overrideMask = HAPEnumNone

\* The source map of a responder with the configured and the derived values
\* of each source.
SourceValues(fbr) ==
    [k \in MonNames |->
        IF fbr.FeedbackSources[k] = Nil THEN Nil
        ELSE [Significance |-> fbr.FeedbackSources[k].Significance,
              MaxValue |-> fbr.FeedbackSources[k].MaxValue,
              Threshold |-> fbr.FeedbackSources[k].Threshold,
              RelNum |-> fbr.FeedbackSources[k].RelNum,
              RelDen |-> fbr.FeedbackSources[k].RelDen]]

\* C34: an `add source` or `edit source` that fails leaves the source map of
\* the responder, and the significance, max-value, threshold and relative
\* significance of every source, as they were before the call.
C34_FailedSourceChangeRestores ==
    [][(/\ lastAPI'.done /\ lastAPI'.type = "source"
        /\ lastAPI'.action \in {"add", "edit"} /\ ~lastAPI'.success
        /\ lastAPI'.why \notin {"missing-target", "bad-api-key"}
        /\ Responders[Polled] # Nil) =>
           /\ Responders'[Polled] # Nil
           /\ SourceValues(Responders'[Polled]) = SourceValues(Responders[Polled])
      ]_vars

\* An add of a source was refused for its significance, with two sources kept
C34_Witness ==
    /\ lastAPI.done /\ lastAPI.type = "source" /\ lastAPI.action = "add"
    /\ ~lastAPI.success /\ lastAPI.why = "error"
    /\ SourceNames(Responders[Polled]) = {"cpu"}
    /\ Monitors["ram"] # Nil

\* The sources of responder fbr that refer to the monitor object registered
\* under their own name in the monitor map M.
SourcesRefer(fbr, M) ==
    \A k \in SourceNames(fbr) :
        M[k] # Nil /\ fbr.FeedbackSources[k].Monitor = M[k].obj

\* C39: when an API request has been handled, every feedback source of every
\* responder refers to the monitor object registered under the source's name.
C39_SourcesReferToRegistered ==
    [][lastAPI'.done =>
          \A n \in RespNames :
              Responders'[n] # Nil => SourcesRefer(Responders'[n], Monitors')
      ]_vars

\* An `edit responder` has given the responder `api` a source map: the source
\* `cpu` is in it and refers to no monitor object.
C39_Witness ==
    /\ lastAPI.done /\ lastAPI.success
    /\ lastAPI.action = "edit" /\ lastAPI.type = "responder"
    /\ lastAPI.target = ResponderNameAPI
    /\ Responders[ResponderNameAPI].FeedbackSources["cpu"] # Nil
    /\ Monitors["cpu"] # Nil
    /\ Responders[ResponderNameAPI].FeedbackSources["cpu"].Monitor # Monitors["cpu"].obj

\* C35: an `edit responder` or `edit monitor` that has passed validation
\* leaves under the name a service in the run state the service had before
\* the request: running when it was running, stopped when it was stopped.
C35_EditKeepsRunState ==
    [][(/\ lastAPI'.done /\ lastAPI'.action = "edit"
        /\ lastAPI'.why \in {"", "listen"}) =>
          /\ lastAPI'.type = "responder" =>
                /\ Responders'[lastAPI'.target] # Nil
                /\ Responders'[lastAPI'.target].runState
                      = Responders[lastAPI'.target].runState
          /\ lastAPI'.type = "monitor" =>
                /\ Monitors'[lastAPI'.target] # Nil
                /\ Monitors'[lastAPI'.target].runState
                      = Monitors[lastAPI'.target].runState
      ]_vars

\* An `edit responder` that moved the polled responder to the address the
\* responder `api` listens on has returned the listen error of the
\* replacement, which is registered and not running.
C35_Witness ==
    /\ lastAPI.done /\ lastAPI.action = "edit" /\ lastAPI.type = "responder"
    /\ lastAPI.target = Polled /\ lastAPI.why = "listen"
    /\ Responders[Polled] # Nil /\ ~Responders[Polled].runState
    /\ Responders[Polled].ListenPort = Responders[ResponderNameAPI].ListenPort
    /\ Responders[ResponderNameAPI].listening

\* C38: a `delete monitor` for a registered monitor that no responder has as
\* a source succeeds and removes the monitor from the map, whether the
\* monitor was running or stopped.
C38_DeleteUnusedMonitor ==
    [][(/\ lastAPI'.done /\ lastAPI'.action = "delete" /\ lastAPI'.type = "monitor"
        /\ lastAPI'.key = AgentAPIKey
        /\ lastAPI'.target \in MonNames
        /\ Monitors[lastAPI'.target] # Nil
        /\ \A n \in RespNames :
              Responders[n] # Nil =>
                 Responders[n].FeedbackSources[lastAPI'.target] = Nil) =>
           /\ lastAPI'.success
           /\ Monitors'[lastAPI'.target] = Nil
      ]_vars

\* A `delete monitor` of the running monitor `ram`, which no responder uses,
\* has failed: the monitor is still registered, and stopped.
C38_Witness ==
    /\ lastAPI.done /\ lastAPI.action = "delete" /\ lastAPI.type = "monitor"
    /\ lastAPI.target = "ram" /\ ~lastAPI.success
    /\ Monitors["ram"] # Nil /\ ~Monitors["ram"].runState
    /\ \A n \in RespNames :
          Responders[n] # Nil => Responders[n].FeedbackSources["ram"] = Nil

\* C40: no call of a method of the responder unlocks the responder's mutex
\* while the mutex is not held: no request ends in the fatal error with which
\* the Go runtime answers such an unlock.
C40_MutexUnlockedOnlyWhenHeld ==
    [][lastAPI'.done => (lastAPI'.why # "fatal" /\ ~crashed')]_vars

\* An `edit responder` with a threshold mode the agent does not know has
\* ended the process in the deferred Unlock of Initialise.
C40_Witness ==
    /\ crashed
    /\ lastAPI.done /\ lastAPI.action = "edit" /\ lastAPI.type = "responder"
    /\ lastAPI.target = Polled /\ lastAPI.why = "fatal"

\* C37: the stopped status that an exited run() sends on its init channel is
\* eventually received, so the worker task ends.
C37_StoppedStatusReceived ==
    \A g \in Runs : (g \in svc.sending) ~> (g \notin svc.sending)

\* A run() whose listen failed is sending the stopped status on its channel
\* while its Start has returned and no caller waits on any channel.
C37_Witness ==
    \E g \in Runs :
        /\ g \in svc.sending /\ g \in svc.bindFailed
        /\ svc.ret[g] # "none" /\ ~svc.runState
        /\ \A c \in Callers : svc.call[c].pc = "idle"

\* The Stop of caller c returns in this step.
StopReturns(c) ==
    sysmon.stop[c] \in {"sending", "waiting"} /\ sysmon'.stop[c] = "idle"

\* C36: a Stop of a running monitor returns only when the worker has taken
\* the stop value, left its loop and sent the stopped status, and leaves the
\* monitor without a worker and not running; a sample is taken only by a
\* worker in its loop, so none is taken after the Stop until the next Start.
C36_StopEndsSampling ==
    [][/\ \A c \in Callers :
             StopReturns(c) =>
                /\ sysmon.worker = "exit" /\ ~sysmon.runState
                /\ sysmon.stop[c] = "waiting"
                /\ sysmon'.worker = "none" /\ ~sysmon'.runState
       /\ sysmon'.last \in {"ok", "fail"} =>
             sysmon.worker = "loop" /\ sysmon.runState
      ]_vars

\* A Stop has returned after samples were taken: no worker is left.
C36_Witness ==
    /\ sysmon.last = "stopped" /\ sysmon.worker = "none" /\ ~sysmon.runState
    /\ sysmon.LastError = "sample"
    /\ \A c \in Callers : sysmon.stop[c] = "idle"

\* The sum of the relative significances of the sources of a responder.
RECURSIVE RelativeSum(_, _)
RelativeSum(fbr, S) ==
    IF S = {} THEN Rat(0, 1)
    ELSE LET k == CHOOSE x \in S : TRUE
         IN RAdd(Rat(fbr.FeedbackSources[k].RelNum, fbr.FeedbackSources[k].RelDen),
                 RelativeSum(fbr, S \ {k}))

\* C33: a feedback request never computes its availability from a source set
\* whose relative significances do not sum to 1, whatever source operation
\* is in progress on the responder.
C33_FeedbackSeesWeightsSumToOne ==
    [][\A c \in Clients :
          (/\ IsCheckStep(c)
           /\ Responders[Polled] # Nil
           /\ SourceNames(Responders[Polled]) # {}) =>
              /\ \A k \in SourceNames(Responders[Polled]) :
                    Responders[Polled].FeedbackSources[k].RelDen > 0
              /\ RelativeSum(Responders[Polled], SourceNames(Responders[Polled]))
                    = Rat(1, 1)
      ]_vars

\* A feedback request is about to compute its availability while a
\* `delete source` has taken `ram` out of the map and has not yet called
\* initialiseSources: `cpu` still weighs one half.
C33_Witness ==
    /\ req[FirstClient].pc = "started"
    /\ edit.pc = "locked" /\ edit.request.Action = "delete"
    /\ SourceNames(Responders[Polled]) = {"cpu"}
    /\ Responders[Polled].FeedbackSources["cpu"].RelNum = 10
    /\ Responders[Polled].FeedbackSources["cpu"].RelDen = 20

\* C31: every API request that the responder `api` has begun to handle is
\* eventually answered, the requests that stop, restart or edit the responder
\* `api` or restart the agent included.
C31_EveryRequestAnswered ==
    \A c \in Connections :
        (apiServer.call[c] = "handle") ~> (apiServer.call[c] = "idle")

\* The handler of a `stop responder` for `api` is inside Shutdown, which
\* waits for the connection of that very request to become idle.
C31_Witness ==
    \E c \in Connections :
        /\ apiServer.call[c] = "shutdown" /\ apiServer.kind[c] = "stop"
        /\ apiServer.mutex = c /\ apiServer.conn[c] = "active"
        /\ \A d \in Connections \ {c} : apiServer.conn[d] = "idle"
        /\ apiServer.call[0] = "idle"

\* The tokens in their fixed order, and those a mask stands for in a polarity:
\* the ones whose command bit the mask holds and whose flag is the polarity's.
TokenOrder == <<"up", "ready", "down", "drain", "fail", "maint", "stopped">>

StatedTokens(mask, online) ==
    LET keep(tk) ==
          /\ BitAnd(mask, BitAnd(commandToEnum[tk], HAPMaskCommand)) # 0
          /\ (BitAnd(commandToEnum[tk], HAPOnlineFlag) # 0) = online
    IN SelectSeq(TokenOrder, keep)

\* C11: a successful `send online` or `send offline` latches every responder
\* it addresses to that state with no override mask, and a reply built from
\* a latch without an override mask that carries command tokens carries
\* exactly the tokens of the configured command mask for the latched state.
C11_SendLatchesWithoutOverride ==
    [][/\ (lastAPI'.done /\ lastAPI'.success /\ lastAPI'.action = "send"
           /\ lastAPI'.type \in {"online", "offline"}) =>
              \A n \in RespNames :
                 (Responders[n] # Nil /\ lastAPI'.target \in {"", n}) =>
                    /\ LatchOf(Responders'[n]).state = (lastAPI'.type = "online")
                    /\ LatchOf(Responders'[n]).override = HAPEnumNone
                    /\ LatchOf(Responders'[n]).expiry =
                          now + Responders[n].CommandInterval
       /\ (reply'.built /\ reply'.override = HAPEnumNone /\ reply'.tokens # <<>>) =>
              reply'.tokens =
                 StatedTokens(Responders'[Polled].configCommandMask, reply'.online)
      ]_vars

\* A reply built from the latch of a `send offline` says down.
C11_Witness ==
    /\ reply.built /\ reply.force /\ ~reply.online
    /\ reply.override = HAPEnumNone
    /\ reply.tokens = <<"down">>

\* Responder n enters the running state in this step: it was absent or not
\* running, or a running object was started again or replaced (a restart, a
\* restart of the agent, an edit of a running responder).
EntersRunning(n) ==
    /\ Responders'[n] # Nil /\ Responders'[n].runState
    /\ \/ Responders[n] = Nil
       \/ ~Responders[n].runState
       \/ Responders[n].listening /\ ~Responders'[n].listening
       \/ /\ lastAPI'.done
          /\ lastAPI'.why \notin {"missing-target", "bad-api-key", "panic"}
          /\ \/ /\ lastAPI'.action = "restart" /\ lastAPI'.type = "agent"
                /\ lastAPI'.target # ""
             \/ /\ lastAPI'.success /\ lastAPI'.type = "responder"
                /\ lastAPI'.target = n /\ lastAPI'.action \in {"restart", "edit"}

\* C12: in the step in which a responder enters the running state its latch
\* becomes (online, now + command-interval, not forced, no override).
C12_RunningStartsOnline ==
    [][\A n \in RespNames :
          EntersRunning(n) =>
             LatchOf(Responders'[n]) =
                [state |-> TRUE,
                 expiry |-> now + Responders'[n].CommandInterval,
                 force |-> FALSE, override |-> HAPEnumNone]
      ]_vars

\* A running responder that was edited has been replaced by a started copy.
C12_Witness ==
    /\ lastAPI.done /\ lastAPI.success
    /\ lastAPI.action = "edit" /\ lastAPI.type = "responder"
    /\ lastAPI.target = Polled
    /\ Responders[Polled].runState /\ ~Responders[Polled].listening
    /\ LatchOf(Responders[Polled]).state

\* C13 as stated: every reply is the tokens, one space, the availability,
\* `%` and a newline when a token is sent, and the availability, `%` and a
\* newline with nothing before them when no token is sent.
C13_ReplyFormat ==
    reply.built =>
        ReplyText(reply) = IF reply.tokens # <<>>
                           THEN CommandText(reply.tokens) \o " "
                                   \o Percent(reply.avail) \o "\n"
                           ELSE Percent(reply.avail) \o "\n"

\* A reply whose command string was due and empty.
C13_Witness ==
    /\ reply.built /\ reply.tokens = <<>>
    /\ ~reply.late
    /\ Responders[Polled].configCommandMask = HAPEnumNone

\* C14: the serialisation of a mask in a polarity holds exactly the tokens
\* whose command bit the mask holds and whose flag is the polarity's, each
\* once, in the order up, ready, down, drain, fail, maint, stopped; an online
\* string holds no offline token and an offline string no online token.
C14_TokensOfMaskInOrder ==
    wire.done =>
        /\ wire.tokens = StatedTokens(wire.mask, wire.online)
        /\ \A i \in 1..Len(wire.tokens) :
              (wire.tokens[i] \in {"up", "ready"}) = wire.online

\* An offline serialisation of a mask that also holds online commands.
C14_Witness ==
    /\ wire.done /\ ~wire.online
    /\ wire.mask = BitAnd(BitOr(HAPDefaultOnline, BitOr(HAPEnumDrain, HAPEnumMaintenance)),
                          HAPMaskCommand)
    /\ wire.tokens = <<"drain", "maint">>

====
